---- MODULE Spec2Model ----
(***************************************************************************)
(* A model of the go-pipeline engine: the construction of a pipeline from  *)
(* its configuration, validation, the Start / Stop lifecycle, the stage    *)
(* workers of Pipeline.execute with their channels, the built-in steps and *)
(* the event bus.                                                          *)
(*                                                                         *)
(* Go strings that the code takes apart (stage ids, dependency strings,    *)
(* output labels) are sequences of one-character strings.  A channel is a  *)
(* record [buf, closed]; its capacity is the one the make() call gives it. *)
(* Every goroutine is a record with a pc; one action is one step of one    *)
(* goroutine up to its next channel operation.                             *)
(***************************************************************************)
EXTENDS Naturals, Integers, Sequences, FiniteSets, TLC

\* ------------------------------------------------------------------ bounds
\* successful Start calls the client issues on one pipeline
MaxRuns == 2
\* ticks a cron trigger fires during one run
MaxTicks == 2
\* listeners registered on the event bus before Start
MaxListeners == 1

\* --------------------------------------------------------------- constants
EdgeCap == 10
InputCap == 10
StepOutCap == 1
CronOutCap == 10
ErrCap == 1

\* ----------------------------------------------------------------- strings
Colon == ":"
sA == <<"a">>
sB == <<"b">>
sC == <<"c">>
sTrue == <<"t", "r", "u", "e">>
sFalse == <<"f", "a", "l", "s", "e">>
sDefault == <<"d", "e", "f", "a", "u", "l", "t">>
Nil == "nil"

\* the indices of the colons of a string
ColonsOf(dep) == {i \in 1..Len(dep) : dep[i] = Colon}

\* the place of the last colon, 0 when there is none (Go: -1)
LastColon(dep) == IF ColonsOf(dep) = {} THEN 0
                  ELSE CHOOSE i \in ColonsOf(dep) : \A j \in ColonsOf(dep) : j <= i

\* the place of the first colon, 0 when there is none
FirstColon(dep) == IF ColonsOf(dep) = {} THEN 0
                   ELSE CHOOSE i \in ColonsOf(dep) : \A j \in ColonsOf(dep) : i <= j

\* a ParseDependency that splits at the first colon
ParseAtFirstColon(dep) ==
  LET firstColon == FirstColon(dep) IN
  IF firstColon = 0 \/ firstColon = Len(dep)
  THEN [StageID |-> dep, Branch |-> <<>>]
  ELSE [StageID |-> SubSeq(dep, 1, firstColon - 1),
        Branch |-> SubSeq(dep, firstColon + 1, Len(dep))]

ParseDependency(dep) ==
  LET lastColon == LastColon(dep) IN
  IF lastColon = 0 \/ lastColon = Len(dep)
  THEN [StageID |-> dep, Branch |-> <<>>]
  ELSE [StageID |-> SubSeq(dep, 1, lastColon - 1),
        Branch  |-> SubSeq(dep, lastColon + 1, Len(dep))]

\* ------------------------------------------------------- step registry
\* step types the steps package registers, with the step each factory makes
StepTypes == {"json", "if", "cron"}

CreateStep(stepType) ==
  IF stepType \in StepTypes THEN [err |-> Nil, step |-> stepType]
  ELSE [err |-> "unknown step type", step |-> Nil]

IsContinuous(step) == step = "cron"

\* ------------------------------------------------------- pipeline building
NewStage(id, step) == [ID |-> id, Step |-> step, dependencyRefs |-> <<>>]

NewPipeline == [stages |-> <<>>, dependents |-> <<>>]

Put(f, k, v) == [x \in DOMAIN f \cup {k} |-> IF x = k THEN v ELSE f[x]]

Get(f, k, dflt) == IF k \in DOMAIN f THEN f[k] ELSE dflt

\* p.stages[stage.ID] = stage
AddStage(pl, stage) == [pl EXCEPT !.stages = Put(pl.stages, stage.ID, stage)]

\* an After that passes over the dependencies it does not know
RECURSIVE AfterUnchecked(_, _, _)
AfterUnchecked(pl, id, deps) ==
  IF deps = <<>> THEN [err |-> Nil, p |-> pl]
  ELSE LET dep == Head(deps) IN
       IF dep \notin DOMAIN pl.stages THEN AfterUnchecked(pl, id, Tail(deps))
       ELSE AfterUnchecked([stages |-> [pl.stages EXCEPT ![id].dependencyRefs = Append(@, dep)],
                            dependents |-> Put(pl.dependents, dep,
                                               Append(Get(pl.dependents, dep, <<>>), id))],
                           id, Tail(deps))

\* StageBuilder.After on the stage registered as id: the dependencies are taken
\* one by one, and the first unknown one ends the call with an error
RECURSIVE After(_, _, _)
After(pl, id, deps) ==
  IF deps = <<>> THEN [err |-> Nil, p |-> pl]
  ELSE LET dep == Head(deps) IN
       IF dep \notin DOMAIN pl.stages
       THEN [err |-> "dependency stage not found in pipeline", p |-> pl]
       ELSE After([stages |-> [pl.stages EXCEPT ![id].dependencyRefs = Append(@, dep)],
                   dependents |-> Put(pl.dependents, dep,
                                      Append(Get(pl.dependents, dep, <<>>), id))],
                  id, Tail(deps))

\* BuildFromConfig, phase 1: create every stage and add it to the pipeline
RECURSIVE BuildStages(_, _)
BuildStages(pl, conf) ==
  IF conf = <<>> THEN [err |-> Nil, p |-> pl]
  ELSE LET made == CreateStep(Head(conf).StepType) IN
       IF made.err # Nil THEN [err |-> made.err, p |-> pl]
       ELSE BuildStages(AddStage(pl, NewStage(Head(conf).ID, made.step)), Tail(conf))

\* BuildFromConfig, phase 2: the dependency strings are looked up as stage ids
RECURSIVE BuildDeps(_, _)
BuildDeps(pl, conf) ==
  IF conf = <<>> THEN [err |-> Nil, p |-> pl]
  ELSE LET sc == Head(conf)
           dependencies == IF Len(sc.Dependencies) = 0 THEN sc.Inputs ELSE sc.Dependencies
       IN IF \E i \in 1..Len(dependencies) : dependencies[i] \notin DOMAIN pl.stages
          THEN [err |-> "depends on non-existent stage", p |-> pl]
          ELSE LET r == After(pl, sc.ID, dependencies) IN
               IF r.err # Nil THEN r ELSE BuildDeps(r.p, Tail(conf))

BuildFromConfig(conf) ==
  LET r1 == BuildStages(NewPipeline, conf) IN
  IF r1.err # Nil THEN [err |-> r1.err, p |-> NewPipeline]
  ELSE LET r2 == BuildDeps(r1.p, conf) IN
       IF r2.err # Nil THEN [err |-> r2.err, p |-> NewPipeline] ELSE r2

\* ---------------------------------------------------------------- Validate
\* the depth-first search of Validate; vs = [visited, recStack]
RECURSIVE hasCycle(_, _, _), hasCycleFrom(_, _, _, _)
hasCycle(stgs, id, vs) ==
  hasCycleFrom(stgs, id, 1,
               [visited |-> vs.visited \cup {id}, recStack |-> vs.recStack \cup {id}])

hasCycleFrom(stgs, id, i, vs) ==
  LET deps == stgs[id].dependencyRefs IN
  IF i > Len(deps)
  THEN [cyc |-> FALSE, visited |-> vs.visited, recStack |-> vs.recStack \ {id}]
  ELSE IF deps[i] \notin vs.visited
       THEN LET r == hasCycle(stgs, deps[i], vs) IN
            IF r.cyc THEN r
            ELSE hasCycleFrom(stgs, id, i + 1,
                              [visited |-> r.visited, recStack |-> r.recStack])
       ELSE IF deps[i] \in vs.recStack
            THEN [cyc |-> TRUE, visited |-> vs.visited, recStack |-> vs.recStack]
            ELSE hasCycleFrom(stgs, id, i + 1, vs)

\* a scan that searches from the first stage of the iteration only
cycleScanFirst(stgs, order, vs) ==
  IF order = <<>> THEN FALSE ELSE hasCycle(stgs, Head(order), vs).cyc

\* the loop over the stages, in the order the map iteration yields them
RECURSIVE cycleScan(_, _, _)
cycleScan(stgs, order, vs) ==
  IF order = <<>> THEN FALSE
  ELSE IF Head(order) \in vs.visited THEN cycleScan(stgs, Tail(order), vs)
       ELSE LET r == hasCycle(stgs, Head(order), vs) IN
            IF r.cyc THEN TRUE
            ELSE cycleScan(stgs, Tail(order),
                           [visited |-> r.visited, recStack |-> r.recStack])

\* a Validate that only looks for missing dependencies
ValidateDepsOnly(stgs, order) ==
  IF \E id \in DOMAIN stgs : \E i \in 1..Len(stgs[id].dependencyRefs) :
        stgs[id].dependencyRefs[i] \notin DOMAIN stgs
  THEN "depends on non-existent stage"
  ELSE Nil

Validate(stgs, order) ==
  IF \E id \in DOMAIN stgs : \E i \in 1..Len(stgs[id].dependencyRefs) :
        stgs[id].dependencyRefs[i] \notin DOMAIN stgs
  THEN "depends on non-existent stage"
  ELSE IF cycleScan(stgs, order, [visited |-> {}, recStack |-> {}])
       THEN "circular dependency detected in pipeline"
       ELSE Nil

\* the orders in which a range over the map can yield the keys
Orders(S) == {o \in [1..Cardinality(S) -> S] : \A i, j \in DOMAIN o : i # j => o[i] # o[j]}

\* a mode detection that looks at every stage, entry point or not
detectAnyContinuous(stgs) ==
  IF \E id \in DOMAIN stgs : IsContinuous(stgs[id].Step) THEN "streaming" ELSE "batch"

detectExecutionMode(stgs) ==
  IF \E id \in DOMAIN stgs :
        Len(stgs[id].dependencyRefs) = 0 /\ IsContinuous(stgs[id].Step)
  THEN "streaming" ELSE "batch"

\* ------------------------------------------------------------------- state
VARIABLES
  cfg,         \* the PipelineConfig handed to BuildFromConfig
  ticks,       \* how many times a cron ticker fires during one run
  built,       \* what BuildFromConfig returned: Nil before the call, "ok", or the error
  p,           \* Pipeline.stages and Pipeline.dependents
  listeners,   \* listeners registered on the event bus
  running,     \* Pipeline.running
  mode,        \* Pipeline.mode
  pctx,        \* Pipeline.ctx / Pipeline.cancel: the run whose context they hold, 0 = none
  pdone,       \* Pipeline.done: the run whose Start made the channel, 0 = NewPipeline's
  cancelled,   \* the runs whose context is cancelled
  doneClosed,  \* the done channels that are closed
  runs,        \* successful Start calls so far; the workers are those of run `runs`
  startErr,    \* what the latest Start call returned
  launcher,    \* per run, the place of the goroutine Start launched
  panicked,    \* the process died of a run-time panic
  pending,     \* per run, listener callbacks of its events that have not returned
  conn,        \* stageConnections: <<producer, consumer>> -> edge channel
  inputChan,   \* per stage, the channel createInputChannelV2 made
  outputChan,  \* per stage, the step's output channel
  errorChan,   \* per stage, the step's error channel
  ib,          \* per stage, the input builder goroutine
  st,          \* per stage, the step's goroutine
  fw,          \* per stage, the output forwarder goroutine
  ef,          \* per stage, the error forwarder goroutine
  wk,          \* per stage, the stage worker goroutine
  got,         \* per stage, the inputs its step has received, in order
  sent,        \* per stage, the outputs its step has emitted, in order
  failed,      \* per stage, the inputs for which its step reported an error
  events,      \* per stage, how many stage.output / stage.error / stage.completed
               \* events were emitted
  enq,         \* per edge channel, the outputs that were sent on it, in order
  started,     \* per run, the mode its pipeline.started event reported
  stop,        \* the Stop call: its place, the run it cancelled, the channel it waits on
  call,        \* the latest call made on a function or on the pipeline's builder
  webhook      \* a one-shot WebhookStep, its goroutine, its HTTP handler and the requests

setupVars == <<cfg, ticks, built, listeners, call, webhook>>
lifeVars == <<running, mode, pctx, pdone, cancelled, doneClosed, runs, startErr, launcher, panicked,
             started, stop>>
chanVars == <<conn, inputChan, outputChan, errorChan>>
procVars == <<ib, st, fw, ef, wk>>
histVars == <<got, sent, failed, events, enq>>
vars == <<setupVars, p, lifeVars, chanVars, procVars, histVars, pending>>

Stages == DOMAIN p.stages
Deps(s) == p.stages[s].dependencyRefs
StepOf(s) == p.stages[s].Step
\* the stages whose goroutines run, and the runs; none once the process has died
Live == IF panicked THEN {} ELSE DOMAIN wk
Runs == IF panicked THEN {} ELSE 1..MaxRuns
\* the run whose execute made the goroutines there are: the latest one, or the
\* one before it as long as the latest has not begun its execute
WorkersRun == IF runs > 0 /\ launcher[runs] = "execute" THEN runs - 1 ELSE runs

\* the context of those goroutines is cancelled
Cancelled == WorkersRun \in cancelled

\* ---------------------------------------------------------------- channels
NewChan == [buf |-> <<>>, closed |-> FALSE]
Room(ch, cap) == Len(ch.buf) < cap
\* a channel that hands out the latest value first
SendFront(ch, v) == [ch EXCEPT !.buf = <<v>> \o @]
Send(ch, v) == [ch EXCEPT !.buf = Append(@, v)]
Recv(ch) == [ch EXCEPT !.buf = Tail(@)]
Close(ch) == [ch EXCEPT !.closed = TRUE]
Drained(ch) == ch.buf = <<>> /\ ch.closed

OutCap(step) == IF step = "cron" THEN CronOutCap ELSE StepOutCap

\* the consumers that stageConnections holds a "s->consumer" channel for
Consumers(s) == {c \in Stages : \E i \in 1..Len(Deps(c)) : Deps(c)[i] = s}

\* the keys "producer->consumer" of stageConnections
Edges == UNION {{<<Deps(c)[i], c>> : i \in 1..Len(Deps(c))} : c \in Stages}

\* builder.GenerateEventID: the k-th identifier made on behalf of stage s
GenerateEventID(s, k) == <<s, k>>
NoEventID == <<>>

\* models.CreateResultData; the payload is the ordinal of the emission
CreateResultData(name, value) == name :> value

\* an Emit that hands the event to every listener twice
EmitTwice(pend, r) == [pend EXCEPT ![r] = @ + 2 * listeners]

\* eventBus.Emit: one callback per listener, counted by pendingWg
Emit(pend, r) == [pend EXCEPT ![r] = @ + listeners]

\* ------------------------------------------------------------ the scenarios
StageConfig(id, stepType, deps) ==
  [ID |-> id, StepType |-> stepType, Dependencies |-> deps, Inputs |-> <<>>]

\* a chain of three non-trigger stages
CfgChain == <<StageConfig(sA, "json", <<>>), StageConfig(sB, "json", <<sA>>),
              StageConfig(sC, "json", <<sB>>)>>
\* two stages that depend on each other, and a stage that depends on itself
CfgCycle == <<StageConfig(sA, "json", <<sB>>), StageConfig(sB, "json", <<sA>>)>>
CfgSelf == <<StageConfig(sA, "json", <<>>), StageConfig(sB, "json", <<sA, sB>>)>>
\* two non-trigger stages
CfgPair == <<StageConfig(sA, "json", <<>>), StageConfig(sB, "json", <<sA>>)>>
\* a conditional with two consumers, without and with branch labels
CfgFan == <<StageConfig(sA, "if", <<>>), StageConfig(sB, "json", <<sA>>),
            StageConfig(sC, "json", <<sA>>)>>
CfgBranch == <<StageConfig(sA, "if", <<>>),
               StageConfig(sB, "json", <<sA \o <<Colon>> \o sTrue>>),
               StageConfig(sC, "json", <<sA \o <<Colon>> \o sFalse>>)>>
\* two entry points joined by one consumer
CfgJoin == <<StageConfig(sA, "json", <<>>), StageConfig(sB, "json", <<>>),
             StageConfig(sC, "json", <<sA, sB>>)>>
\* a cron trigger feeding a non-trigger stage
CfgCron == <<StageConfig(sA, "cron", <<>>), StageConfig(sB, "json", <<sA>>)>>
\* a cron trigger with two consumers
CfgCronFan == <<StageConfig(sA, "cron", <<>>), StageConfig(sB, "json", <<sA>>),
                StageConfig(sC, "json", <<sA>>)>>
\* a cron trigger and a one-shot entry point joined by one consumer
CfgCronJoin == <<StageConfig(sA, "cron", <<>>), StageConfig(sB, "json", <<>>),
                 StageConfig(sC, "json", <<sA, sB>>)>>
\* a cron trigger whose consumer names it twice
CfgTwice == <<StageConfig(sA, "cron", <<>>), StageConfig(sB, "json", <<sA, sA>>)>>
\* a cron step that is not an entry point
CfgLate == <<StageConfig(sA, "json", <<>>), StageConfig(sB, "cron", <<sA>>)>>

\* the fields keep their types and no channel holds more than its capacity
TypeOK ==
  /\ running \in BOOLEAN
  /\ panicked \in BOOLEAN
  /\ runs \in 0..MaxRuns
  /\ pctx \in 0..MaxRuns
  /\ pdone \in 0..MaxRuns
  /\ mode \in {"batch", "streaming"}
  /\ \A e \in DOMAIN conn : Len(conn[e].buf) <= EdgeCap
  /\ \A s \in DOMAIN inputChan : Len(inputChan[s].buf) <= InputCap
  /\ \A s \in DOMAIN outputChan : Len(outputChan[s].buf) <= OutCap(StepOf(s))
  /\ \A s \in DOMAIN errorChan : Len(errorChan[s].buf) <= ErrCap

\* --------------------------------------------------------------- lifecycle
NoStop == [pc |-> "idle", run |-> 0, done |-> 0, err |-> "none"]
NoCall == [op |-> "none", in |-> <<>>, out |-> <<>>, n |-> 0]

\* a WebhookStep whose Run has the inputs to come: the goroutine at its range
\* loop, the handler not registered (captured = 0) and not active, no received
\* channel made, no request
NewWebhook(pc, inputs) ==
  [pc |-> pc, inputs |-> inputs, input |-> NoEventID, data |-> 0, active |-> FALSE,
   captured |-> 0, received |-> <<>>, outputs |-> <<>>, errors |-> 0,
   requests |-> <<>>, cancelled |-> FALSE]
NoWebhook == NewWebhook("none", <<>>)

NoProcs == /\ conn = <<>> /\ inputChan = <<>> /\ outputChan = <<>> /\ errorChan = <<>>
           /\ ib = <<>> /\ st = <<>> /\ fw = <<>> /\ ef = <<>> /\ wk = <<>>
           /\ got = <<>> /\ sent = <<>> /\ failed = <<>> /\ events = <<>> /\ enq = <<>>

\* NewPipeline, before anything is added to it
Fresh ==
  /\ built = Nil
  /\ p = NewPipeline
  /\ running = FALSE
  /\ mode = "batch"
  /\ pctx = 0
  /\ pdone = 0
  /\ cancelled = {}
  /\ doneClosed = {}
  /\ runs = 0
  /\ startErr = "none"
  /\ launcher = [r \in 1..MaxRuns |-> "idle"]
  /\ panicked = FALSE
  /\ pending = [r \in 1..MaxRuns |-> 0]
  /\ started = [r \in 1..MaxRuns |-> "none"]
  /\ stop = NoStop
  /\ NoProcs

InitWith(configs, tickCounts, listenerCounts) ==
  /\ cfg \in configs
  /\ ticks \in tickCounts
  /\ listeners \in listenerCounts
  /\ call = NoCall
  /\ webhook = NoWebhook
  /\ Fresh

\* BuildFromConfig(cfg)
Build ==
  /\ built = Nil
  /\ ~panicked
  /\ LET r == BuildFromConfig(cfg) IN
       /\ built' = (IF r.err = Nil THEN "ok" ELSE r.err)
       /\ p' = r.p
  /\ UNCHANGED <<cfg, ticks, listeners, call, webhook, lifeVars, chanVars, procVars, histVars, pending>>

\* the string Start hands to EmitPipelineStarted
modeStr(m) == IF m = "streaming" THEN "streaming" ELSE "batch"

\* Pipeline.Start once the CompareAndSwap has succeeded: Validate, and on success
\* the mode, the context, a new done channel, pipeline.started and the goroutine
StartIdle(order) ==
  LET err == Validate(p.stages, order) IN
  /\ IF err # Nil
     THEN /\ startErr' = err
          /\ UNCHANGED <<running, mode, pctx, pdone, runs, launcher, pending, started>>
     ELSE /\ runs < MaxRuns
          /\ running' = TRUE
          /\ mode' = detectExecutionMode(p.stages)
          /\ runs' = runs + 1
          /\ pctx' = runs + 1
          /\ pdone' = runs + 1
          /\ started' = [started EXCEPT ![runs + 1] = modeStr(mode')]
          /\ pending' = Emit(pending, runs + 1)
          /\ launcher' = [launcher EXCEPT ![runs + 1] = "execute"]
          /\ startErr' = Nil
  /\ UNCHANGED <<cancelled, doneClosed, panicked, stop>>

\* a Start that does not look at the running flag
StartUnguarded ==
  /\ built = "ok"
  /\ ~panicked
  /\ \E order \in Orders(Stages) : StartIdle(order)
  /\ UNCHANGED <<setupVars, p, chanVars, procVars, histVars>>

\* Pipeline.Start: the CompareAndSwap decides between the two
Start ==
  /\ built = "ok"
  /\ ~panicked
  /\ IF running
     THEN /\ startErr' = "pipeline already running"
          /\ UNCHANGED <<running, mode, pctx, pdone, cancelled, doneClosed, runs,
                         launcher, panicked, pending, started, stop>>
     ELSE \E order \in Orders(Stages) : StartIdle(order)
  /\ UNCHANGED <<setupVars, p, chanVars, procVars, histVars>>

\* Pipeline.Stop up to the cancellation; an error when the pipeline is not running.
\* One Stop call at a time, and none on a run that is cancelled already
Stop ==
  /\ built = "ok"
  /\ ~panicked
  /\ stop.pc = "idle"
  /\ IF ~running
     THEN /\ stop' = [NoStop EXCEPT !.err = "pipeline not running"]
          /\ UNCHANGED cancelled
     ELSE /\ pctx \notin cancelled
          /\ cancelled' = cancelled \cup {pctx}
          /\ stop' = [pc |-> "select", run |-> pctx, done |-> 0, err |-> "none"]
  /\ UNCHANGED <<running, mode, pctx, pdone, doneClosed, runs, startErr, launcher, panicked,
                 started>>
  /\ UNCHANGED <<setupVars, p, chanVars, procVars, histVars, pending>>

\* Stop reaches its select: the channel p.done holds now is the one it waits on
StopSelect ==
  /\ ~panicked
  /\ stop.pc = "select"
  /\ stop' = [stop EXCEPT !.pc = "wait", !.done = pdone]
  /\ UNCHANGED <<running, mode, pctx, pdone, cancelled, doneClosed, runs, startErr, launcher,
                 panicked, started>>
  /\ UNCHANGED <<setupVars, p, chanVars, procVars, histVars, pending>>

\* case <-p.done: return nil
StopReturn ==
  /\ ~panicked
  /\ stop.pc = "wait"
  /\ stop.done \in doneClosed
  /\ stop' = [stop EXCEPT !.pc = "idle", !.err = Nil]
  /\ UNCHANGED <<running, mode, pctx, pdone, cancelled, doneClosed, runs, startErr, launcher,
                 panicked, started>>
  /\ UNCHANGED <<setupVars, p, chanVars, procVars, histVars, pending>>

\* case <-timeout: the 30 seconds can elapse at any moment of the wait
StopTimeout ==
  /\ ~panicked
  /\ stop.pc = "wait"
  /\ stop' = [stop EXCEPT !.pc = "idle", !.err = "pipeline stop timeout"]
  /\ UNCHANGED <<running, mode, pctx, pdone, cancelled, doneClosed, runs, startErr, launcher,
                 panicked, started>>
  /\ UNCHANGED <<setupVars, p, chanVars, procVars, histVars, pending>>

\* ----------------------------------------------------------------- execute
NewRound == [pc |-> "round", i |-> 1, data |-> <<>>, eventID |-> NoEventID,
             allClosed |-> TRUE]

NewInputBuilder(s) == IF Len(Deps(s)) = 0 THEN [NewRound EXCEPT !.pc = "entry"] ELSE NewRound

\* a goroutine that has returned keeps no locals
Returned == [NewRound EXCEPT !.pc = "done"]

\* Pipeline.execute up to wg.Wait: the edge channels, and per stage the input
\* builder, the step's goroutine and the two forwarders
Execute ==
  /\ runs > 0
  /\ ~panicked
  /\ launcher[runs] = "execute"
  /\ launcher' = [launcher EXCEPT ![runs] = "wait workers"]
  /\ conn' = [e \in Edges |-> NewChan]
  /\ inputChan' = [s \in Stages |-> NewChan]
  /\ outputChan' = [s \in Stages |-> NewChan]
  /\ errorChan' = [s \in Stages |-> NewChan]
  /\ ib' = [s \in Stages |-> NewInputBuilder(s)]
  /\ st' = [s \in Stages |-> [pc |-> "recv", out |-> <<>>, n |-> 0]]
  /\ fw' = [s \in Stages |-> [pc |-> "recv", out |-> <<>>, rest |-> {}, target |-> <<>>]]
  /\ ef' = [s \in Stages |-> "run"]
  /\ wk' = [s \in Stages |-> "run"]
  /\ got' = [s \in Stages |-> <<>>]
  /\ sent' = [s \in Stages |-> <<>>]
  /\ failed' = [s \in Stages |-> <<>>]
  /\ events' = [s \in Stages |-> [output |-> 0, error |-> 0, completed |-> 0]]
  /\ enq' = [e \in Edges |-> <<>>]
  /\ UNCHANGED <<setupVars, p, running, mode, pctx, pdone, cancelled, doneClosed, runs,
                 startErr, panicked, pending, started, stop>>

\* -------------------------------------------------- createInputChannelV2
\* an input builder that gives an entry point no input
IBEntrySilent(s) ==
  /\ ib[s].pc = "entry"
  /\ IF IsContinuous(StepOf(s))
     THEN /\ ib' = [ib EXCEPT ![s].pc = "wait cancel"]
          /\ UNCHANGED inputChan
     ELSE /\ inputChan' = [inputChan EXCEPT ![s] = Close(@)]
          /\ ib' = [ib EXCEPT ![s].pc = "done"]
  /\ UNCHANGED <<setupVars, p, lifeVars, conn, outputChan, errorChan, st, fw, ef, wk,
                 histVars, pending>>

\* a stage without dependencies: one initial input, or the cancellation
IBEntry(s) ==
  /\ ib[s].pc = "entry"
  /\ \E pick \in {"send"} \cup (IF Cancelled THEN {"cancel"} ELSE {}) :
       LET ch == IF pick = "send"
                 THEN Send(inputChan[s], [Data |-> <<>>, EventID |-> GenerateEventID(s, 0)])
                 ELSE inputChan[s]
       IN IF IsContinuous(StepOf(s))
          THEN /\ inputChan' = [inputChan EXCEPT ![s] = ch]
               /\ ib' = [ib EXCEPT ![s].pc = "wait cancel"]
          ELSE /\ inputChan' = [inputChan EXCEPT ![s] = Close(ch)]
               /\ ib' = [ib EXCEPT ![s].pc = "done"]
  /\ UNCHANGED <<setupVars, p, lifeVars, conn, outputChan, errorChan, st, fw, ef, wk,
                 histVars, pending>>

\* a continuous entry point: <-ctx.Done(), then the deferred close
IBWaitCancel(s) ==
  /\ ib[s].pc = "wait cancel"
  /\ Cancelled
  /\ inputChan' = [inputChan EXCEPT ![s] = Close(@)]
  /\ ib' = [ib EXCEPT ![s].pc = "done"]
  /\ UNCHANGED <<setupVars, p, lifeVars, conn, outputChan, errorChan, st, fw, ef, wk,
                 histVars, pending>>

\* what the select on the edge of dependency i can take
RecvPicks(s) ==
  LET ch == conn[<<Deps(s)[ib[s].i], s>>] IN
  (IF ch.buf # <<>> THEN {"item"} ELSE {}) \cup
  (IF Drained(ch) THEN {"closed"} ELSE {}) \cup
  (IF Cancelled THEN {"cancel"} ELSE {})

\* an input builder that ends the round at the first output it gets
AfterReadEager(s, b) ==
  IF DOMAIN b.data # {} THEN [b EXCEPT !.pc = "emit"]
  ELSE IF b.i < Len(Deps(s)) THEN [b EXCEPT !.i = b.i + 1]
  ELSE [b EXCEPT !.pc = "return"]

\* the input builder after the read of dependency i: the next dependency, or the
\* end of the round (all closed: return; else emit the input)
AfterRead(s, b) ==
  IF b.i < Len(Deps(s)) THEN [b EXCEPT !.i = b.i + 1]
  ELSE IF b.allClosed THEN [b EXCEPT !.pc = "return"]
  ELSE IF DOMAIN b.data # {} THEN [b EXCEPT !.pc = "emit"]
  ELSE NewRound

\* a round that takes the EventID of the latest output
AdoptLatest(eventID, out) == out.EventID

\* if eventID == "" { eventID = out.EventID }
AdoptEventID(eventID, out) == IF eventID = NoEventID THEN out.EventID ELSE eventID

\* one read of the round: the select on the edge of dependency i
IBRecv(s) ==
  /\ ib[s].pc = "round"
  /\ \E pick \in RecvPicks(s) :
       LET e == <<Deps(s)[ib[s].i], s>>
           out == Head(conn[e].buf)
           b == IF pick = "cancel" THEN [ib[s] EXCEPT !.pc = "return"]
                ELSE IF pick = "closed" THEN AfterRead(s, ib[s])
                ELSE AfterRead(s, [ib[s] EXCEPT
                       !.allClosed = FALSE,
                       !.data = Put(@, e[1], out.Data),
                       !.eventID = AdoptEventID(@, out)])
       IN /\ conn' = IF pick = "item" THEN [conn EXCEPT ![e] = Recv(@)] ELSE conn
          /\ IF b.pc = "return"
             THEN /\ ib' = [ib EXCEPT ![s] = Returned]
                  /\ inputChan' = [inputChan EXCEPT ![s] = Close(@)]
             ELSE /\ ib' = [ib EXCEPT ![s] = b]
                  /\ UNCHANGED inputChan
  /\ UNCHANGED <<setupVars, p, lifeVars, outputChan, errorChan, st, fw, ef, wk,
                 histVars, pending>>

\* the end of a round: the select that sends the assembled input
IBEmit(s) ==
  /\ ib[s].pc = "emit"
  /\ \E pick \in (IF Room(inputChan[s], InputCap) THEN {"send"} ELSE {}) \cup
                 (IF Cancelled THEN {"cancel"} ELSE {}) :
       IF pick = "send"
       THEN /\ inputChan' = [inputChan EXCEPT ![s] =
                   Send(@, [Data |-> ib[s].data, EventID |-> ib[s].eventID])]
            /\ ib' = [ib EXCEPT ![s] = NewRound]
       ELSE /\ inputChan' = [inputChan EXCEPT ![s] = Close(@)]
            /\ ib' = [ib EXCEPT ![s] = Returned]
  /\ UNCHANGED <<setupVars, p, lifeVars, conn, outputChan, errorChan, st, fw, ef, wk,
                 histVars, pending>>

\* ------------------------------------------------------------ the steps
\* what a non-trigger step can make of one input: an error, or its output label
\* (no label: the step cannot produce a valid output)
NoLabel == <<>>
Outcomes(step) == IF step = "if" THEN {NoLabel, sTrue, sFalse} ELSE {NoLabel, sDefault}

StepIdle == [pc |-> "done", out |-> <<>>, n |-> 0]

\* a step that gives its output an identifier of its own
StepOutputFresh(input, res, k) ==
  [Data |-> CreateResultData(res, k), EventID |-> GenerateEventID(res, k)]

\* the StepOutput a step makes of an input: it keeps the input's EventID
StepOutput(input, res, k) == [Data |-> CreateResultData(res, k), EventID |-> input.EventID]

\* a step that sends a partial output for an input it fails on
FailureOutputsPartial(input) ==
  <<[Data |-> CreateResultData(NoLabel, 0), EventID |-> input.EventID]>>

\* what a step sends on its output channel for an input it fails on: nothing
FailureOutputs(input) == <<>>

\* JsonStep.Run, IfStep.Run (and the other non-trigger steps, which share the
\* loop): the receive of the next input and the work on it.  An error is sent
\* on the error channel and the goroutine returns, closing both channels.
StepRecv(s) ==
  /\ ~IsContinuous(StepOf(s))
  /\ st[s].pc = "recv"
  /\ IF inputChan[s].buf # <<>>
     THEN LET input == Head(inputChan[s].buf) IN
          /\ inputChan' = [inputChan EXCEPT ![s] = Recv(@)]
          /\ got' = [got EXCEPT ![s] = Append(@, input)]
          /\ \E res \in Outcomes(StepOf(s)) :
               IF res = NoLabel
               THEN /\ errorChan' = [errorChan EXCEPT ![s] = Close(Send(@, "step failed"))]
                    /\ outputChan' = [outputChan EXCEPT ![s] =
                           Close([@ EXCEPT !.buf = @ \o FailureOutputs(input)])]
                    /\ sent' = [sent EXCEPT ![s] = @ \o FailureOutputs(input)]
                    /\ failed' = [failed EXCEPT ![s] = Append(@, input.EventID)]
                    /\ st' = [st EXCEPT ![s] = StepIdle]
               ELSE /\ st' = [st EXCEPT ![s] =
                          [pc |-> "send", n |-> 0,
                           out |-> <<StepOutput(input, res, Len(sent[s]) + 1)>>]]
                    /\ UNCHANGED <<errorChan, outputChan, failed, sent>>
     ELSE /\ Drained(inputChan[s])
          /\ errorChan' = [errorChan EXCEPT ![s] = Close(@)]
          /\ outputChan' = [outputChan EXCEPT ![s] = Close(@)]
          /\ st' = [st EXCEPT ![s] = StepIdle]
          /\ UNCHANGED <<inputChan, got, failed, sent>>
  /\ UNCHANGED <<setupVars, p, lifeVars, conn, ib, fw, ef, wk, events, enq, pending>>

\* the select that sends the output: on cancellation "step cancelled" goes to the
\* error channel instead, and the goroutine returns
StepSend(s) ==
  /\ ~IsContinuous(StepOf(s))
  /\ st[s].pc = "send"
  /\ \E pick \in (IF Room(outputChan[s], StepOutCap) THEN {"send"} ELSE {}) \cup
                 (IF Cancelled THEN {"cancel"} ELSE {}) :
       IF pick = "send"
       THEN /\ outputChan' = [outputChan EXCEPT ![s] = Send(@, st[s].out[1])]
            /\ sent' = [sent EXCEPT ![s] = Append(@, st[s].out[1])]
            /\ st' = [st EXCEPT ![s] = [pc |-> "recv", out |-> <<>>, n |-> 0]]
            /\ UNCHANGED <<errorChan, failed>>
       ELSE /\ errorChan' = [errorChan EXCEPT ![s] = Close(Send(@, "step cancelled"))]
            /\ outputChan' = [outputChan EXCEPT ![s] = Close(@)]
            /\ failed' = [failed EXCEPT ![s] = Append(@, st[s].out[1].EventID)]
            /\ st' = [st EXCEPT ![s] = StepIdle]
            /\ UNCHANGED sent
  /\ UNCHANGED <<setupVars, p, lifeVars, conn, inputChan, ib, fw, ef, wk, got, events, enq, pending>>

\* CronStep.Run: the ticker case of the select makes the output of the tick
CronTick(s) ==
  /\ IsContinuous(StepOf(s))
  /\ st[s].pc = "recv"
  /\ st[s].n < ticks
  /\ st' = [st EXCEPT ![s] =
         [pc |-> "send", n |-> @.n + 1,
          out |-> <<[Data |-> CreateResultData(sDefault, @.n + 1),
                     EventID |-> GenerateEventID(s, @.n + 1)]>>]]
  /\ UNCHANGED <<setupVars, p, lifeVars, chanVars, ib, fw, ef, wk, histVars, pending>>

\* the send that follows the tick: it waits for room on the output channel
\* without watching the context
CronSend(s) ==
  /\ IsContinuous(StepOf(s))
  /\ st[s].pc = "send"
  /\ Room(outputChan[s], CronOutCap)
  /\ outputChan' = [outputChan EXCEPT ![s] = Send(@, st[s].out[1])]
  /\ sent' = [sent EXCEPT ![s] = Append(@, st[s].out[1])]
  /\ st' = [st EXCEPT ![s] = [pc |-> "recv", out |-> <<>>, n |-> @.n]]
  /\ UNCHANGED <<setupVars, p, lifeVars, conn, inputChan, errorChan, ib, fw, ef, wk,
                 got, failed, events, enq, pending>>

\* the ctx.Done case of the select: return, closing both channels
CronCancel(s) ==
  /\ IsContinuous(StepOf(s))
  /\ st[s].pc = "recv"
  /\ Cancelled
  /\ errorChan' = [errorChan EXCEPT ![s] = Close(@)]
  /\ outputChan' = [outputChan EXCEPT ![s] = Close(@)]
  /\ st' = [st EXCEPT ![s] = StepIdle]
  /\ UNCHANGED <<setupVars, p, lifeVars, conn, inputChan, ib, fw, ef, wk, histVars, pending>>

\* -------------------------------------------------------- the forwarders
FwIdle == [pc |-> "done", out |-> <<>>, rest |-> {}, target |-> <<>>]

\* the output forwarder's range over the step's output channel: the stage.output
\* event, then the fan-out to the consumers
FwRecv(s) ==
  /\ fw[s].pc = "recv"
  /\ IF outputChan[s].buf # <<>>
     THEN /\ outputChan' = [outputChan EXCEPT ![s] = Recv(@)]
          /\ events' = [events EXCEPT ![s].output = @ + 1]
          /\ pending' = Emit(pending, runs)
          /\ fw' = [fw EXCEPT ![s] =
                 IF Consumers(s) = {} THEN @
                 ELSE [pc |-> "fan", out |-> <<Head(outputChan[s].buf)>>,
                       rest |-> Consumers(s), target |-> <<>>]]
     ELSE /\ Drained(outputChan[s])
          /\ fw' = [fw EXCEPT ![s] = FwIdle]
          /\ UNCHANGED <<outputChan, events, pending>>
  /\ UNCHANGED <<setupVars, p, lifeVars, conn, inputChan, errorChan, ib, st, ef, wk,
                 got, sent, failed, enq>>

\* a forwarder that is done with an output after its first send
AfterFirstSend(f, c) == [pc |-> "recv", out |-> <<>>, rest |-> {}, target |-> <<>>]

\* the forwarder after the send to consumer c
AfterSend(f, c) ==
  IF f.rest = {c} THEN [pc |-> "recv", out |-> <<>>, rest |-> {}, target |-> <<>>]
  ELSE [f EXCEPT !.rest = @ \ {c}, !.target = <<>>]

\* the fan-out: the range over the stages reaches the consumers in any order; the
\* select on a consumer's edge sends, waits for room, or returns on cancellation
FwSend(s) ==
  /\ fw[s].pc = "fan"
  /\ \E c \in (IF fw[s].target = <<>> THEN fw[s].rest ELSE {fw[s].target}) :
     \E pick \in (IF Room(conn[<<s, c>>], EdgeCap) THEN {"send"}
                  ELSE IF fw[s].target = <<>> THEN {"wait"} ELSE {}) \cup
                 (IF Cancelled THEN {"cancel"} ELSE {}) :
       /\ conn' = IF pick = "send" THEN [conn EXCEPT ![<<s, c>>] = Send(@, fw[s].out[1])]
                  ELSE conn
       /\ enq' = IF pick = "send" THEN [enq EXCEPT ![<<s, c>>] = Append(@, fw[s].out[1])]
                 ELSE enq
       /\ fw' = [fw EXCEPT ![s] = IF pick = "send" THEN AfterSend(@, c)
                                  ELSE IF pick = "wait" THEN [@ EXCEPT !.target = c]
                                  ELSE FwIdle]
  /\ UNCHANGED <<setupVars, p, lifeVars, inputChan, outputChan, errorChan, ib, st, ef, wk,
                 got, sent, failed, events, pending>>

\* the error forwarder's range over the step's error channel
ErrRecv(s) ==
  /\ ef[s] = "run"
  /\ IF errorChan[s].buf # <<>>
     THEN /\ errorChan' = [errorChan EXCEPT ![s] = Recv(@)]
          /\ events' = [events EXCEPT ![s].error = @ + 1]
          /\ pending' = Emit(pending, runs)
          /\ UNCHANGED ef
     ELSE /\ Drained(errorChan[s])
          /\ ef' = [ef EXCEPT ![s] = "done"]
          /\ UNCHANGED <<errorChan, events, pending>>
  /\ UNCHANGED <<setupVars, p, lifeVars, conn, inputChan, outputChan, ib, st, fw, wk,
                 got, sent, failed, enq>>

\* a worker that leaves its edges open
KeepEdges(s) == conn

\* a worker that closes every edge channel of the run
CloseAllEdges(s) == [e \in DOMAIN conn |-> Close(conn[e])]

\* the worker's deferred function: close every edge "s->consumer"
CloseEdges(s) == [e \in DOMAIN conn |-> IF e[1] = s THEN Close(conn[e]) ELSE conn[e]]

\* the stage worker: forwardWg.Wait, then the deferred close of the edges to the
\* consumers and wg.Done
WorkerExit(s) ==
  /\ wk[s] = "run"
  /\ fw[s].pc = "done"
  /\ ef[s] = "done"
  /\ conn' = CloseEdges(s)
  /\ wk' = [wk EXCEPT ![s] = "exited"]
  /\ UNCHANGED <<setupVars, p, lifeVars, inputChan, outputChan, errorChan, ib, st, fw, ef,
                 histVars, pending>>

\* ------------------------------------------- the goroutine Start launched
\* execute returns once every worker has exited; the deferred function begins
\* with running.Store(false)
ExecuteReturn(r) ==
  /\ launcher[r] = "wait workers"
  /\ \A s \in DOMAIN wk : wk[s] = "exited"
  /\ running' = FALSE
  /\ launcher' = [launcher EXCEPT ![r] = "emit completed"]
  /\ UNCHANGED <<mode, pctx, pdone, cancelled, doneClosed, runs, startErr, panicked, started, stop>>
  /\ UNCHANGED <<setupVars, p, chanVars, procVars, histVars, pending>>

\* eventBus.EmitPipelineCompleted
EmitCompleted(r) ==
  /\ launcher[r] = "emit completed"
  /\ pending' = Emit(pending, r)
  /\ launcher' = [launcher EXCEPT ![r] = "wait events"]
  /\ UNCHANGED <<running, mode, pctx, pdone, cancelled, doneClosed, runs, startErr, panicked,
                 started, stop>>
  /\ UNCHANGED <<setupVars, p, chanVars, procVars, histVars>>

\* eventBus.Wait returns when no callback is in flight
EventsDrained(r) ==
  /\ launcher[r] = "wait events"
  /\ \A q \in DOMAIN pending : pending[q] = 0
  /\ launcher' = [launcher EXCEPT ![r] = "close done"]
  /\ UNCHANGED <<running, mode, pctx, pdone, cancelled, doneClosed, runs, startErr, panicked,
                 started, stop>>
  /\ UNCHANGED <<setupVars, p, chanVars, procVars, histVars, pending>>

\* close(p.done): the channel the field holds now; closing a closed channel panics
CloseDone(r) ==
  /\ launcher[r] = "close done"
  /\ launcher' = [launcher EXCEPT ![r] = "finished"]
  /\ IF pdone \in doneClosed
     THEN panicked' = TRUE /\ UNCHANGED doneClosed
     ELSE doneClosed' = doneClosed \cup {pdone} /\ UNCHANGED panicked
  /\ UNCHANGED <<running, mode, pctx, pdone, cancelled, runs, startErr, started, stop>>
  /\ UNCHANGED <<setupVars, p, chanVars, procVars, histVars, pending>>

\* a listener callback returns (pendingWg.Done)
ListenerReturn(r) ==
  /\ pending[r] > 0
  /\ pending' = [pending EXCEPT ![r] = @ - 1]
  /\ UNCHANGED <<setupVars, p, lifeVars, chanVars, procVars, histVars>>

\* ------------------------------------------------------- specifications
Workers ==
  \/ \E s \in Live : IBEntry(s)
  \/ \E s \in Live : IBRecv(s)
  \/ \E s \in Live : IBEmit(s)
  \/ \E s \in Live : StepRecv(s)
  \/ \E s \in Live : StepSend(s)
  \/ \E s \in Live : FwRecv(s)
  \/ \E s \in Live : FwSend(s)
  \/ \E s \in Live : ErrRecv(s)
  \/ \E s \in Live : WorkerExit(s)

Triggers ==
  \/ \E s \in Live : IBWaitCancel(s)
  \/ \E s \in Live : CronTick(s)
  \/ \E s \in Live : CronSend(s)
  \/ \E s \in Live : CronCancel(s)

Launcher ==
  \/ \E r \in Runs : ExecuteReturn(r)
  \/ \E r \in Runs : EmitCompleted(r)
  \/ \E r \in Runs : EventsDrained(r)
  \/ \E r \in Runs : CloseDone(r)

Listeners == \E r \in Runs : ListenerReturn(r)

\* the rest of a Stop call, after the cancellation
Stopping ==
  \/ StopSelect
  \/ StopReturn
  \/ StopTimeout

\* a client that starts the pipeline once
FirstStart == runs = 0 /\ Start

\* the lifecycle: Start, Stop and restart of a small pipeline
Init == InitWith({CfgPair, CfgCycle, CfgSelf}, {0}, {0})

Next == Build \/ Start \/ Stop \/ Stopping \/ Execute \/ Workers \/ Launcher

Spec == Init /\ [][Next]_vars

\* one batch run to its end, never cancelled, with listeners on the event bus
InitBatch == InitWith({CfgChain, CfgFan, CfgJoin, CfgBranch}, {0}, 0..MaxListeners)

NextBatch == Build \/ FirstStart \/ Execute \/ Workers \/ Launcher \/ Listeners

SpecBatch == InitBatch /\ [][NextBatch]_vars

\* one streaming run of a cron trigger and its consumer, with Stop
InitStream == InitWith({CfgCron, CfgLate, CfgPair}, {MaxTicks}, {0})

NextStream == Build \/ FirstStart \/ Stop \/ Stopping \/ Execute \/ Workers \/ Triggers \/ Launcher

SpecStream == InitStream /\ [][NextStream]_vars

\* a ticker that is slow against the goroutines: a tick comes when nothing else
\* can run
Quiet == ~ENABLED (Workers \/ \E s \in Live : IBWaitCancel(s) \/ CronSend(s) \/ CronCancel(s))

SlowTriggers ==
  \/ \E s \in Live : IBWaitCancel(s)
  \/ \E s \in Live : Quiet /\ CronTick(s)
  \/ \E s \in Live : CronSend(s)
  \/ \E s \in Live : CronCancel(s)

\* one streaming run long enough to fill every channel between the trigger and
\* its consumer
InitFill == InitWith({CfgCron}, {CronOutCap + EdgeCap + InputCap + 4}, {0})

NextFill == Build \/ FirstStart \/ Stop \/ Stopping \/ Execute \/ Workers \/ SlowTriggers \/ Launcher

SpecFill == InitFill /\ [][NextFill]_vars

\* ------------------------------------------------------------- properties
\* some goroutine of the run can take a step
Progress == ENABLED (Execute \/ Workers \/ Triggers \/ Launcher \/ Listeners)

AllExited == wk # <<>> /\ \A s \in DOMAIN wk : wk[s] = "exited"

\* the workers of run r have all exited
WorkersExited(r) == r < runs \/ (r = runs /\ launcher[r] # "execute" /\ AllExited)

\* stage b is reached from stage a along at most n dependency references
RECURSIVE CanReach(_, _, _, _)
CanReach(stgs, a, b, n) ==
  /\ n > 0
  /\ \E i \in 1..Len(stgs[a].dependencyRefs) :
       LET d == stgs[a].dependencyRefs[i] IN
       d \in DOMAIN stgs /\ (d = b \/ CanReach(stgs, d, b, n - 1))

Cyclic(stgs) == \E s \in DOMAIN stgs : CanReach(stgs, s, s, Cardinality(DOMAIN stgs))

NoContinuousEntry == detectExecutionMode(p.stages) = "batch"

\* C1: a valid pipeline without continuous entry points passes Validate for
\* every iteration order, and once started, without cancellation, it cannot
\* come to rest before every stage worker has exited and the done channel of the
\* run is closed
C1_StartWaitCompletes ==
  (built = "ok" /\ ~Cyclic(p.stages) /\ NoContinuousEntry) =>
    /\ \A order \in Orders(Stages) : Validate(p.stages, order) = Nil
    /\ runs = 1 => (Progress \/ (AllExited /\ 1 \in doneClosed))

C1_Witness == cfg = CfgChain /\ AllExited /\ 1 \in doneClosed

CircularDependency == "circular dependency detected in pipeline"

\* C2: a pipeline whose dependency graph has a cycle (a self-loop included)
\* fails Validate with the circular dependency error for every iteration order;
\* Start returns that error, the pipeline is not running, no run was counted and
\* no worker, channel or step goroutine exists
C2_CycleRejected ==
  (built = "ok" /\ Cyclic(p.stages)) =>
    /\ \A order \in Orders(Stages) : Validate(p.stages, order) = CircularDependency
    /\ startErr \in {"none", CircularDependency}
    /\ ~running /\ runs = 0 /\ pctx = 0
    /\ \A r \in DOMAIN launcher : launcher[r] = "idle"
    /\ NoProcs

C2_Witness == cfg = CfgSelf /\ Cyclic(p.stages) /\ startErr = CircularDependency

\* C3: while the pipeline is running no step changes the count of runs, the
\* cancel handle, the done channel or the mode, and a Start call that returns
\* then returns the "already running" error
C3_StartWhileRunning ==
  [][running => /\ runs' = runs /\ pctx' = pctx /\ pdone' = pdone /\ mode' = mode
                /\ launcher'[runs] \in {launcher[runs], "wait workers", "emit completed"}
                /\ startErr' # startErr => startErr' = "pipeline already running"]_vars

C3_Witness == running /\ startErr = "pipeline already running" /\ wk # <<>>

ConfiguredIDs == {cfg[i].ID : i \in 1..Len(cfg)}

\* C4: a dependency "stage_id:label" on a configured stage is accepted, and what
\* the consumer's step receives from that stage are the outputs that carry the
\* label (every output, when the dependency has no label)
C4_BranchFiltering ==
  \A i \in 1..Len(cfg) : \A j \in 1..Len(cfg[i].Dependencies) :
    LET ref == ParseDependency(cfg[i].Dependencies[j])
        c == cfg[i].ID
    IN (ref.StageID \in ConfiguredIDs /\ built # Nil) =>
         /\ built = "ok"
         /\ c \in DOMAIN got =>
              \A k \in 1..Len(got[c]) :
                /\ ref.StageID \in DOMAIN got[c][k].Data
                /\ ref.Branch # <<>> => ref.Branch \in DOMAIN got[c][k].Data[ref.StageID]

\* C5: every output of a non-trigger step carries the EventID of the input it
\* was made from, and along the chain a -> b -> c the outputs of c carry the
\* EventID of the input delivered to a
C5_EventIDPropagation ==
  /\ \A s \in DOMAIN sent : ~IsContinuous(StepOf(s)) =>
       \A k \in 1..Len(sent[s]) :
         k <= Len(got[s]) /\ sent[s][k].EventID = got[s][k].EventID
  /\ (cfg = CfgChain /\ sC \in DOMAIN sent) =>
       \A k \in 1..Len(sent[sC]) :
         /\ sent[sC][k].EventID # NoEventID
         /\ \E j \in 1..Len(got[sA]) : sent[sC][k].EventID = got[sA][j].EventID

C5_Witness == cfg = CfgChain /\ sC \in DOMAIN sent /\ Len(sent[sC]) = 1

\* C6: once the context of the run is cancelled the run cannot come to rest
\* before every stage worker has exited and its done channel is closed
C6_CancelTerminates ==
  (runs = 1 /\ Cancelled) => (Progress \/ (AllExited /\ 1 \in doneClosed))

\* C7: a done channel is closed only when the workers of the run whose Start
\* made it have exited and no listener callback of that run's events is pending
C7_DoneAfterWorkersAndListeners ==
  \A r \in doneClosed : WorkersExited(r) /\ pending[r] = 0

\* C8: after a step has reported an error for one input, and without
\* cancellation, the pipeline is still running and an input that reaches the
\* stage finds the step still receiving
C8_ErrorNonFatal ==
  \A s \in DOMAIN st :
    (failed[s] # <<>> /\ ~Cancelled /\ wk[s] = "run") =>
      /\ running
      /\ inputChan[s].buf # <<>> => st[s].pc # "done"

\* the errors the step of stage s has sent so far
ErrorsOf(s) == Len(errorChan[s].buf) + events[s].error

\* the outputs of stage s that carry EventID id
OutputsFor(s, id) == {k \in 1..Len(sent[s]) : sent[s][k].EventID = id}

\* C9: for every input a non-trigger step has received it has emitted at most
\* one output; an input it failed on has exactly one error and no output with
\* that input's EventID
C9_FailurePolicy ==
  \A s \in DOMAIN got : ~IsContinuous(StepOf(s)) =>
    /\ \A i \in 1..Len(got[s]) : Cardinality(OutputsFor(s, got[s][i].EventID)) <= 1
    /\ \A f \in 1..Len(failed[s]) :
         /\ OutputsFor(s, failed[s][f]) = {}
         /\ \E i \in 1..Len(got[s]) : got[s][i].EventID = failed[s][f]
         /\ \A g \in 1..Len(failed[s]) : failed[s][g] = failed[s][f] => g = f
    /\ ErrorsOf(s) = Len(failed[s])
    /\ Len(sent[s]) + Len(failed[s]) <= Len(got[s])

C9_Witness == \E s \in DOMAIN got : failed[s] # <<>> /\ sent[s] # <<>> /\ events[s].error = 1

\* the place of the output with payload d among the outputs stage s emitted
PlaceIn(s, d) == CHOOSE k \in 1..Len(sent[s]) : sent[s][k].Data = d

\* C10: what a consumer's step receives from one producer, it receives in the
\* order in which the producer's step emitted it
C10_EdgeFIFO ==
  \A c \in DOMAIN got : \A i, j \in 1..Len(got[c]) :
    \A pr \in DOMAIN got[c][i].Data \cap DOMAIN got[c][j].Data :
      /\ \E k \in 1..Len(sent[pr]) : sent[pr][k].Data = got[c][i].Data[pr]
      /\ i < j => PlaceIn(pr, got[c][i].Data[pr]) < PlaceIn(pr, got[c][j].Data[pr])

C10_Witness == \E c \in DOMAIN got : Len(got[c]) >= 2 /\ ~Cancelled

\* ------------------------------------------- building a pipeline by hand
MaxCalls == 3
MaxDeps == 2
StageIDs == {sA, sB, sC}
GraphSteps == {"json", "cron"}
DepLists == UNION {[1..n -> StageIDs] : n \in 0..MaxDeps}

\* p.mutex: execute holds the read lock from its first statement until it returns
Unlocked == \A r \in 1..MaxRuns : launcher[r] # "wait workers"

\* p.AddStage(NewStage(id, step)), under the write lock; nothing is refused, a
\* registered id included
CallAddStage(id, step) ==
  /\ call.n < MaxCalls
  /\ Unlocked
  /\ p' = AddStage(p, NewStage(id, step))
  /\ call' = [op |-> "AddStage", in |-> <<id, step>>, out |-> Nil, n |-> call.n + 1]
  /\ UNCHANGED <<cfg, ticks, built, listeners, webhook, lifeVars, chanVars, procVars, histVars, pending>>

\* After(deps...) on the builder of the stage registered as id, under the write
\* lock; a dependency is any stage object, registered or not
CallAfter(id, deps) ==
  /\ call.n < MaxCalls
  /\ Unlocked
  /\ id \in DOMAIN p.stages
  /\ LET r == After(p, id, deps) IN
       /\ p' = r.p
       /\ call' = [op |-> "After", in |-> <<id, deps>>, out |-> r.err, n |-> call.n + 1]
  /\ UNCHANGED <<cfg, ticks, built, listeners, webhook, lifeVars, chanVars, procVars, histVars, pending>>

InitGraph == cfg = <<>> /\ ticks = 0 /\ listeners = 0 /\ webhook = NoWebhook /\ call = NoCall /\ Fresh

NextGraph ==
  \/ \E id \in StageIDs, step \in GraphSteps : CallAddStage(id, step)
  \/ \E id \in StageIDs, deps \in DepLists : CallAfter(id, deps)

SpecGraph == InitGraph /\ [][NextGraph]_vars

Count(seq, x) == Cardinality({i \in 1..Len(seq) : seq[i] = x})

\* C11: an After call that lists a stage which is not registered in the pipeline
\* returns an error
C11_UnknownDependencyRejected ==
  (call.op = "After" /\ \E i \in 1..Len(call.in[2]) : call.in[2][i] \notin DOMAIN p.stages)
    => call.out # Nil

\* an After call whose second dependency is the unknown one has returned
C11_Witness ==
  /\ call.op = "After"
  /\ Len(call.in[2]) = 2
  /\ call.in[2][1] \in DOMAIN p.stages
  /\ call.in[2][2] \notin DOMAIN p.stages
  /\ call.out # Nil

\* C12: after any sequence of AddStage and After calls, consumer c is listed
\* under dependents[d] as many times as d is among the dependencyRefs of the
\* stage registered as c
C12_DependentsIsReverse ==
  \A d, c \in StageIDs :
    Count(Get(p.dependents, d, <<>>), c) =
      (IF c \in DOMAIN p.stages THEN Count(p.stages[c].dependencyRefs, d) ELSE 0)

\* C13: the mode of a started run is streaming exactly when some stage without
\* dependencies has a continuous step, batch otherwise, and the run's
\* pipeline.started event reports that mode
C13_ModeFromEntryPoints ==
  runs >= 1 =>
    /\ mode = "streaming" <=> \E s \in Stages : Len(Deps(s)) = 0 /\ IsContinuous(StepOf(s))
    /\ mode = "batch" <=> \A s \in Stages : Len(Deps(s)) = 0 => ~IsContinuous(StepOf(s))
    /\ started[runs] = mode

\* a run in batch mode although one of its stages, not an entry point, is continuous
C13_Witness ==
  /\ runs = 1
  /\ started[1] = "batch"
  /\ \E s \in Stages : Len(Deps(s)) > 0 /\ IsContinuous(StepOf(s))

\* ------------------------------------------------- dependency strings
MaxLen == 5
Chars == {"a", "b", "c", Colon}
Strings == UNION {[1..n -> Chars] : n \in 0..MaxLen}

\* a call that has its argument and no result yet
Pending(op, arg) == [op |-> op, in |-> arg, out |-> <<>>, n |-> 0]

\* config.ParseDependency(dep)
CallParseDependency ==
  /\ call.op = "ParseDependency"
  /\ call.n = 0
  /\ call' = [call EXCEPT !.out = ParseDependency(call.in), !.n = 1]
  /\ UNCHANGED <<cfg, ticks, built, listeners, webhook, p, lifeVars, chanVars, procVars, histVars, pending>>

InitParse ==
  /\ cfg = <<>> /\ ticks = 0 /\ listeners = 0 /\ webhook = NoWebhook /\ Fresh
  /\ call \in {Pending("ParseDependency", dep) : dep \in Strings}

NextParse == CallParseDependency

SpecParse == InitParse /\ [][NextParse]_vars

\* C14: ParseDependency splits at the last colon: the id is what stands before
\* it and the branch what stands after it, so "a:b:c" gives ("a:b", "c"); a
\* string without a colon, or ending in a colon, is the id as a whole, with an
\* empty branch
C14_SplitAtLastColon ==
  (call.op = "ParseDependency" /\ call.n = 1) =>
    LET dep == call.in
        ref == call.out
    IN /\ (\A i \in 1..Len(dep) : dep[i] # Colon) =>
             ref = [StageID |-> dep, Branch |-> <<>>]
       /\ (Len(dep) > 0 /\ dep[Len(dep)] = Colon) =>
             ref = [StageID |-> dep, Branch |-> <<>>]
       /\ ((\E i \in 1..Len(dep) : dep[i] = Colon) /\ dep[Len(dep)] # Colon) =>
             /\ ref.StageID \o <<Colon>> \o ref.Branch = dep
             /\ ref.Branch # <<>>
             /\ \A i \in 1..Len(ref.Branch) : ref.Branch[i] # Colon
       /\ dep = <<"a", Colon, "b", Colon, "c">> =>
             ref = [StageID |-> <<"a", Colon, "b">>, Branch |-> <<"c">>]

\* "a:b:c" has been parsed
C14_Witness ==
  /\ call.op = "ParseDependency"
  /\ call.n = 1
  /\ call.in = <<"a", Colon, "b", Colon, "c">>
  /\ call.out.StageID = <<"a", Colon, "b">>

RECURSIVE Total(_, _)
Total(f, S) == IF S = {} THEN 0
               ELSE LET x == CHOOSE x \in S : TRUE IN f[x] + Total(f, S \ {x})

\* the events the first run has emitted: pipeline.started, the stage.output and
\* stage.error events, pipeline.completed
Emitted ==
  (IF runs >= 1 THEN 1 ELSE 0)
  + Total([s \in DOMAIN events |-> events[s].output + events[s].error], DOMAIN events)
  + (IF launcher[1] \in {"wait events", "close done", "finished"} THEN 1 ELSE 0)

\* an emission starts one callback per listener and nothing else does; a step
\* without emission lets at most one callback return
EmissionStep ==
  /\ Emitted' = Emitted + 1 => pending'[1] = pending[1] + listeners
  /\ Emitted' = Emitted => pending'[1] \in {pending[1], pending[1] - 1}
  /\ Emitted' \in {Emitted, Emitted + 1}

\* C15: every emission hands the event once to each registered listener, each
\* in a task of its own, and returns without waiting for them: whatever
\* callbacks have not returned, the stage goroutines of a started run can step
\* until every worker has exited
C15_ListenersAsynchronous ==
  /\ [](runs = 1 /\ ~AllExited => ENABLED (Execute \/ Workers))
  /\ [][EmissionStep]_vars

\* every worker has exited, outputs were forwarded, and no callback of the run's
\* events has returned
C15_Witness ==
  /\ listeners = 1
  /\ AllExited
  /\ launcher[1] = "wait workers"
  /\ Emitted >= 3
  /\ pending[1] = Emitted

\* C16: a Stop call that found the pipeline not running cancelled nothing, and a
\* Stop call that cancelled a run and returned success did so after the done
\* channel of that run was closed
C16_StopSemantics ==
  /\ stop.err = "pipeline not running" => stop.run = 0
  /\ (stop.pc = "idle" /\ stop.err = Nil) => stop.run \in doneClosed

\* ------------------------------------------------- service definitions
\* Go values of type any: the body template of an operation, defaults, and the
\* values a parameter stands for
Str(s) == [g |-> "str", s |-> s]
Bool(b) == [g |-> "bool", b |-> b]
GoNil == [g |-> "nil"]
GoMap(m) == [g |-> "map", m |-> m]
GoArr(a) == [g |-> "arr", a |-> a]
\* an expression that cannot be evaluated
GoErr == [g |-> "error"]

\* config.ValueSpec: StaticValue, DynamicValue (with what the expression gives on
\* an empty pipeline state), StructuredBody, and the nil ValueSpec
NewStaticValue(value) == [t |-> "static", Value |-> value]
DynamicValue(expr, onEmpty) == [t |-> "dynamic", Expression |-> expr, onEmpty |-> onEmpty]
StructuredFields(fields) == [t |-> "structured", Fields |-> fields]
StructuredArray(items) == [t |-> "structured", Array |-> items]
Omitted == [t |-> "nil"]

\* an IsStatic that takes a StructuredBody for static
IsStaticShallow(v) == v.t # "dynamic"

IsStatic(v) == v.t = "static"

\* GetStaticValue: the value and whether there is one
GetStaticValue(v) == IF v.t = "static" THEN [staticVal |-> v.Value, isStatic |-> TRUE]
                     ELSE [staticVal |-> GoNil, isStatic |-> FALSE]

\* paramValue.Resolve on an empty StepInput
ResolveEmpty(v) ==
  IF v.t = "static" THEN [err |-> Nil, v |-> v.Value]
  ELSE IF v.t = "dynamic" /\ v.onEmpty # GoErr THEN [err |-> Nil, v |-> v.onEmpty]
  ELSE [err |-> "failed to resolve", v |-> GoNil]

ParameterDef(required, optional, default) ==
  [Required |-> required, Optional |-> optional, Default |-> default]

IsRequired(paramDef) == paramDef.Required /\ ~paramDef.Optional
IsOptional(paramDef) == paramDef.Optional \/ ~paramDef.Required

\* the defaults of a parameter map, as static values
Defaults(paramDefs) ==
  [name \in {n \in DOMAIN paramDefs : paramDefs[n].Default # GoNil} |->
     NewStaticValue(paramDefs[name].Default)]

\* writing the entries of g over those of f
Overlay(f, g) == [k \in DOMAIN f \cup DOMAIN g |-> IF k \in DOMAIN g THEN g[k] ELSE f[k]]

\* a merge where the service's defaults are written over the operation's
mergeGlobalOverOperation(serviceDef, opDef, userParams) ==
  Overlay(Overlay(Defaults(opDef.Params), Defaults(serviceDef.GlobalParams)), userParams)

mergeParams(serviceDef, opDef, userParams) ==
  Overlay(Overlay(Defaults(serviceDef.GlobalParams), Defaults(opDef.Params)), userParams)

validateParams(opDef, params) ==
  IF \E name \in DOMAIN opDef.Params : IsRequired(opDef.Params[name]) /\ name \notin DOMAIN params
  THEN "required parameter not provided"
  ELSE Nil

valueExists(value) ==
  IF value.g = "nil" THEN FALSE
  ELSE IF value.g = "str" THEN value.s # ""
  ELSE IF value.g = "arr" THEN Len(value.a) > 0
  ELSE IF value.g = "map" THEN DOMAIN value.m # {}
  ELSE TRUE

\* resolved == equals on two interface values: comparing two maps or two slices
\* is a run-time panic
GoEquals(a, b) ==
  IF a.g = b.g /\ a.g \in {"map", "arr"}
  THEN [err |-> "panic: comparing uncomparable type", ok |-> FALSE]
  ELSE [err |-> Nil, ok |-> a = b]

HasString(m, key) == key \in DOMAIN m /\ m[key].g = "str"
HasBool(m, key) == key \in DOMAIN m /\ m[key].g = "bool"

evaluateCondition(cond, params) ==
  IF ~HasString(cond, "$param") THEN [err |-> "condition must have $param", ok |-> FALSE]
  ELSE LET paramName == cond["$param"].s
           paramExists == paramName \in DOMAIN params
       IN IF HasBool(cond, "$exists")
          THEN [err |-> Nil, ok |-> IF cond["$exists"].b THEN paramExists ELSE ~paramExists]
          ELSE IF ~paramExists THEN [err |-> Nil, ok |-> FALSE]
          ELSE LET resolved == ResolveEmpty(params[paramName]) IN
               IF resolved.err # Nil
               THEN [err |-> "failed to resolve parameter", ok |-> FALSE]
               ELSE IF "$equals" \in DOMAIN cond THEN GoEquals(resolved.v, cond["$equals"])
               ELSE IF HasBool(cond, "$not_empty")
               THEN [err |-> Nil, ok |-> IF cond["$not_empty"].b THEN valueExists(resolved.v)
                                         ELSE ~valueExists(resolved.v)]
               ELSE IF HasBool(cond, "$is_empty")
               THEN [err |-> Nil, ok |-> IF cond["$is_empty"].b THEN ~valueExists(resolved.v)
                                         ELSE valueExists(resolved.v)]
               ELSE [err |-> Nil, ok |-> valueExists(resolved.v)]

\* a missing parameter that leaves a null in the body
missingParamNull(opDef, paramName) ==
  IF paramName \in DOMAIN opDef.Params /\ IsOptional(opDef.Params[paramName])
  THEN [err |-> Nil, v |-> NewStaticValue(GoNil)]
  ELSE [err |-> "parameter not found", v |-> Omitted]

\* resolveBodyMap, a $param reference whose name is not in the environment
missingParam(opDef, paramName) ==
  IF paramName \in DOMAIN opDef.Params /\ IsOptional(opDef.Params[paramName])
  THEN [err |-> Nil, v |-> Omitted]
  ELSE [err |-> "parameter not found", v |-> Omitted]

\* the items that are kept, in order
RECURSIVE Kept(_)
Kept(items) ==
  IF items = <<>> THEN <<>>
  ELSE IF Head(items).v = Omitted THEN Kept(Tail(items))
       ELSE <<Head(items).v>> \o Kept(Tail(items))

\* the static values among the kept items, in order
RECURSIVE StaticValues(_)
StaticValues(resolvedItems) ==
  IF resolvedItems = <<>> THEN <<>>
  ELSE IF GetStaticValue(Head(resolvedItems)).isStatic
       THEN <<GetStaticValue(Head(resolvedItems)).staticVal>> \o StaticValues(Tail(resolvedItems))
       ELSE StaticValues(Tail(resolvedItems))

\* the end of resolveBodyArray and of resolveArrayTemplate: a static array when
\* no kept item is dynamic, a structured body otherwise
CollectArray(items) ==
  IF \E i \in 1..Len(items) : items[i].err # Nil
  THEN [err |-> items[CHOOSE i \in 1..Len(items) : items[i].err # Nil].err, v |-> Omitted]
  ELSE LET resolvedItems == Kept(items) IN
       IF \E i \in 1..Len(resolvedItems) : ~IsStatic(resolvedItems[i])
       THEN [err |-> Nil, v |-> StructuredArray(resolvedItems)]
       ELSE [err |-> Nil,
             v |-> NewStaticValue(GoArr(StaticValues(resolvedItems)))]

RECURSIVE resolveBodyField(_, _, _), resolveBodyMap(_, _, _), resolveBodyArray(_, _, _),
          resolveConditional(_, _, _), resolveArrayTemplate(_, _, _)
resolveBodyField(opDef, field, params) ==
  IF field.g = "map" THEN resolveBodyMap(opDef, field.m, params)
  ELSE IF field.g = "arr" THEN resolveBodyArray(opDef, field.a, params)
  ELSE [err |-> Nil, v |-> NewStaticValue(field)]

resolveBodyMap(opDef, m, params) ==
  IF "$if" \in DOMAIN m THEN resolveConditional(opDef, m, params)
  ELSE IF "$for_each" \in DOMAIN m THEN resolveArrayTemplate(opDef, m, params)
  ELSE IF HasString(m, "$param")
  THEN LET paramName == m["$param"].s IN
       IF paramName \in DOMAIN params THEN [err |-> Nil, v |-> params[paramName]]
       ELSE missingParam(opDef, paramName)
  ELSE LET resolved == [key \in DOMAIN m |-> resolveBodyField(opDef, m[key], params)]
           kept == {key \in DOMAIN m : resolved[key].v # Omitted}
       IN IF \E key \in DOMAIN m : resolved[key].err # Nil
          THEN [err |-> resolved[CHOOSE key \in DOMAIN m : resolved[key].err # Nil].err,
                v |-> Omitted]
          ELSE IF \E key \in kept : ~IsStatic(resolved[key].v)
               THEN [err |-> Nil, v |-> StructuredFields([key \in kept |-> resolved[key].v])]
               ELSE [err |-> Nil,
                     v |-> NewStaticValue(GoMap(
                             [key \in {k \in kept : GetStaticValue(resolved[k].v).isStatic} |->
                                GetStaticValue(resolved[key].v).staticVal]))]

\* a conditional that resolves to a null when the chosen branch is absent
resolveConditionalNull(opDef, cond, params) ==
  IF cond["$if"].g # "map"
  THEN [err |-> "invalid conditional structure: $if must be a map", v |-> Omitted]
  ELSE LET conditionMet == evaluateCondition(cond["$if"].m, params) IN
       IF conditionMet.err # Nil THEN [err |-> conditionMet.err, v |-> Omitted]
       ELSE IF conditionMet.ok /\ "$then" \in DOMAIN cond
            THEN resolveBodyField(opDef, cond["$then"], params)
            ELSE IF ~conditionMet.ok /\ "$else" \in DOMAIN cond
                 THEN resolveBodyField(opDef, cond["$else"], params)
                 ELSE [err |-> Nil, v |-> NewStaticValue(GoNil)]

resolveConditional(opDef, cond, params) ==
  IF cond["$if"].g # "map"
  THEN [err |-> "invalid conditional structure: $if must be a map", v |-> Omitted]
  ELSE LET conditionMet == evaluateCondition(cond["$if"].m, params) IN
       IF conditionMet.err # Nil THEN [err |-> conditionMet.err, v |-> Omitted]
       ELSE IF conditionMet.ok /\ "$then" \in DOMAIN cond
            THEN resolveBodyField(opDef, cond["$then"], params)
            ELSE IF ~conditionMet.ok /\ "$else" \in DOMAIN cond
                 THEN resolveBodyField(opDef, cond["$else"], params)
                 ELSE [err |-> Nil, v |-> Omitted]

\* an array template that binds $item to the last element for every item
resolveArrayTemplateLast(opDef, arrTmpl, params) ==
  IF ~HasString(arrTmpl, "$for_each")
  THEN [err |-> "array template must have $for_each parameter as string", v |-> Omitted]
  ELSE IF "$template" \notin DOMAIN arrTmpl
  THEN [err |-> "array template must have $template", v |-> Omitted]
  ELSE LET forEach == arrTmpl["$for_each"].s IN
       IF forEach \notin DOMAIN params
       THEN [err |-> "array parameter not found", v |-> Omitted]
       ELSE LET resolvedArray == ResolveEmpty(params[forEach]) IN
            IF resolvedArray.err # Nil
            THEN [err |-> "failed to resolve array parameter", v |-> Omitted]
            ELSE IF resolvedArray.v.g # "arr"
            THEN [err |-> "parameter is not an array", v |-> Omitted]
            ELSE LET array == resolvedArray.v.a IN
                 CollectArray([i \in 1..Len(array) |->
                   resolveBodyField(opDef, arrTmpl["$template"],
                                    Overlay(params, "$item" :> NewStaticValue(array[Len(array)])))])

resolveArrayTemplate(opDef, arrTmpl, params) ==
  IF ~HasString(arrTmpl, "$for_each")
  THEN [err |-> "array template must have $for_each parameter as string", v |-> Omitted]
  ELSE IF "$template" \notin DOMAIN arrTmpl
  THEN [err |-> "array template must have $template", v |-> Omitted]
  ELSE LET forEach == arrTmpl["$for_each"].s IN
       IF forEach \notin DOMAIN params
       THEN [err |-> "array parameter not found", v |-> Omitted]
       ELSE LET resolvedArray == ResolveEmpty(params[forEach]) IN
            IF resolvedArray.err # Nil
            THEN [err |-> "failed to resolve array parameter", v |-> Omitted]
            ELSE IF resolvedArray.v.g # "arr"
            THEN [err |-> "parameter is not an array", v |-> Omitted]
            ELSE LET array == resolvedArray.v.a IN
                 CollectArray([i \in 1..Len(array) |->
                   resolveBodyField(opDef, arrTmpl["$template"],
                                    Overlay(params, "$item" :> NewStaticValue(array[i])))])

resolveBodyArray(opDef, arr, params) ==
  CollectArray([i \in 1..Len(arr) |-> resolveBodyField(opDef, arr[i], params)])

ResolveBody(serviceDef, opDef, userParams) ==
  LET mergedParams == mergeParams(serviceDef, opDef, userParams)
      err == validateParams(opDef, mergedParams)
  IN IF err # Nil THEN [err |-> err, v |-> Omitted]
     ELSE IF opDef.Body = GoNil THEN [err |-> Nil, v |-> Omitted]
     ELSE resolveBodyField(opDef, opDef.Body, mergedParams)

\* --------------------------------------------- ValidateServiceDefinition
ValidMethods == {"GET", "POST", "PUT", "DELETE", "PATCH", "HEAD", "OPTIONS"}

\* ServiceDefinition.Validate
ValidateBasic(def) ==
  IF def.Name = "" THEN "service name is required"
  ELSE IF DOMAIN def.Operations = {} THEN "service must have at least one operation"
  ELSE IF \E o \in DOMAIN def.Operations : def.Operations[o].Method = ""
  THEN "method is required"
  ELSE IF \E o \in DOMAIN def.Operations : def.Operations[o].Path = ""
  THEN "path is required"
  ELSE IF \E o \in DOMAIN def.Operations : def.Operations[o].Method \notin ValidMethods
  THEN "invalid method"
  ELSE Nil

ConditionOperators == {"$exists", "$equals", "$not_equals", "$not_empty", "$is_empty"}

validateConditionDef(cond, params) ==
  IF HasString(cond, "$param") /\ cond["$param"].s \notin DOMAIN params
  THEN "condition references undefined parameter"
  ELSE LET operators == Cardinality(DOMAIN cond \cap ConditionOperators) IN
       IF operators = 0 THEN "condition must have at least one operator"
       ELSE IF operators > 1 THEN "condition can only have one operator"
       ELSE Nil

validateArrayTemplateDef(arrTmpl) ==
  IF ~HasString(arrTmpl, "$for_each") THEN "array template must have $for_each parameter"
  ELSE IF "$template" \notin DOMAIN arrTmpl /\ "$array_map" \notin DOMAIN arrTmpl
  THEN "array template must have either $template or $array_map"
  ELSE IF "$template" \in DOMAIN arrTmpl /\ "$array_map" \in DOMAIN arrTmpl
  THEN "array template cannot have both $template and $array_map"
  ELSE Nil

\* the first error among the results, Nil when there is none
FirstError(errs) == IF \E e \in errs : e # Nil THEN CHOOSE e \in errs : e # Nil ELSE Nil

RECURSIVE validateBodyReferences(_, _), validateConditionalDef(_, _)
validateBodyReferences(body, params) ==
  IF body.g = "map"
  THEN IF "$if" \in DOMAIN body.m THEN validateConditionalDef(body.m, params)
       ELSE IF "$for_each" \in DOMAIN body.m THEN validateArrayTemplateDef(body.m)
       ELSE IF HasString(body.m, "$param")
       THEN IF body.m["$param"].s \notin DOMAIN params
            THEN "parameter referenced in body but not defined in params"
            ELSE Nil
       ELSE FirstError({validateBodyReferences(body.m[key], params) : key \in DOMAIN body.m})
  ELSE IF body.g = "arr"
  THEN FirstError({validateBodyReferences(body.a[i], params) : i \in 1..Len(body.a)})
  ELSE Nil

validateConditionalDef(cond, params) ==
  LET ifErr == IF cond["$if"].g = "map" THEN validateConditionDef(cond["$if"].m, params) ELSE Nil
      thenErr == IF "$then" \in DOMAIN cond THEN validateBodyReferences(cond["$then"], params)
                 ELSE Nil
      elseErr == IF "$else" \in DOMAIN cond THEN validateBodyReferences(cond["$else"], params)
                 ELSE Nil
  IN IF ifErr # Nil THEN ifErr ELSE IF thenErr # Nil THEN thenErr ELSE elseErr

validateOperation(op) ==
  IF \E paramName \in DOMAIN op.Params :
        IsRequired(op.Params[paramName]) /\ op.Params[paramName].Default # GoNil
  THEN "parameter is marked as required but has a default value"
  ELSE IF op.Body # GoNil THEN validateBodyReferences(op.Body, op.Params)
  ELSE Nil

ValidateServiceDefinition(def) ==
  IF ValidateBasic(def) # Nil THEN ValidateBasic(def)
  ELSE FirstError({validateOperation(def.Operations[o]) : o \in DOMAIN def.Operations})

\* ------------------------------------------------- the inputs of the calls
MaxItems == 1
ParamNames == {"x", "y"}
Keys == {"k1", "k2"}

\* the maps from some of the keys to the values
Maps(keys, values) == UNION {[D -> values] : D \in SUBSET keys}

\* a reference to a parameter
Ref(name) == GoMap("$param" :> Str(name))
\* y if x is given, nothing otherwise
CondLeaf == GoMap(("$if" :> GoMap(("$param" :> Str("x")) @@ ("$exists" :> Bool(TRUE))))
                  @@ ("$then" :> Ref("y")))
\* one object per item of y
TmplLeaf == GoMap(("$for_each" :> Str("y")) @@ ("$template" :> GoMap("v" :> Ref("$item"))))

\* a conditional on parameter x whose condition has the operators ops
CondWith(ops) ==
  GoMap(("$if" :> GoMap(("$param" :> Str("x")) @@ [o \in ops |-> Bool(TRUE)]))
        @@ ("$then" :> Str("s")))

\* an array template over y whose item template is the node
TmplOf(node) == GoMap(("$for_each" :> Str("y")) @@ ("$template" :> node))

Leaves == {Str("s"), Ref("x"), Ref("y"), CondLeaf, TmplLeaf}

\* the nodes of S, and the maps and arrays made of them
Level(S) == S \cup {GoMap(m) : m \in Maps(Keys, S)}
              \cup {GoArr(a) : a \in UNION {[1..n -> S] : n \in 0..MaxItems}}
\* the nodes of S, alone, under a key, and in an array
Wrap(S) == S \cup {GoMap("k1" :> node) : node \in S} \cup {GoArr(<<node>>) : node \in S}

Bodies == Wrap(Wrap(Level(Leaves))) \cup {GoNil}

Opt == ParameterDef(FALSE, TRUE, GoNil)
Req == ParameterDef(TRUE, FALSE, GoNil)
GlobalDefs == {Opt, Req, ParameterDef(FALSE, TRUE, Str("g"))}
OpDefs == {Opt, Req, ParameterDef(FALSE, TRUE, Str("o"))}
UserValues == {NewStaticValue(Str("u")), NewStaticValue(GoArr(<<Str("i")>>)),
               DynamicValue("e", GoErr)}

Service(name, globalParams, operations) ==
  [Name |-> name, GlobalParams |-> globalParams, Operations |-> operations]
Operation(method, params, body) ==
  [Method |-> method, Path |-> "/p", Params |-> params, Body |-> body]

MergeCalls ==
  {Pending("mergeParams", [serviceDef |-> Service("svc", g, <<>>),
                           opDef |-> Operation("POST", o, GoNil), userParams |-> u]) :
     g \in Maps(ParamNames, GlobalDefs), o \in Maps(ParamNames, OpDefs),
     u \in Maps(ParamNames, UserValues)}

ResolveCalls ==
  {Pending("ResolveBody", [serviceDef |-> Service("svc", g, <<>>),
                           opDef |-> Operation("POST", ("x" :> Opt) @@ o, b),
                           userParams |-> u]) :
     g \in Maps({"y"}, {Opt}), o \in Maps({"y"}, OpDefs), u \in Maps(ParamNames, UserValues),
     b \in Bodies}

\* no operator, one, two
OperatorSets == {{}, {"$equals"}, {"$is_empty"}, {"$exists", "$equals"}}

AllDefs == {ParameterDef(r, o, d) : r \in BOOLEAN, o \in BOOLEAN, d \in {GoNil, Str("d")}}

ValidateCalls ==
  {Pending("ValidateServiceDefinition",
           Service(name, g, IF n = 0 THEN <<>> ELSE "op" :> Operation(method, o, b))) :
     name \in {"svc", ""}, g \in Maps({"x"}, AllDefs), o \in Maps({"x"}, AllDefs),
     method \in {"POST", "", "FETCH"}, n \in {0, 1},
     b \in {GoNil, Ref("x"), Ref("y"), GoMap("k1" :> Ref("x")), CondLeaf, TmplLeaf}
           \cup {CondWith(ops) : ops \in OperatorSets}
           \cup {GoMap("k1" :> CondWith(ops)) : ops \in OperatorSets}
           \cup {TmplOf(CondWith(ops)) : ops \in OperatorSets}}

\* ServiceRegistry: NewServiceRegistry, Register, List
NewServiceRegistry == <<>>

Register(services, def) ==
  IF ValidateBasic(def) # Nil
  THEN [err |-> "invalid service definition", services |-> services]
  ELSE [err |-> Nil, services |-> Put(services, def.Name, def)]

\* the step types RegisterDynamicAPIServices registers a factory for: one for
\* each name in the registry
RegisterDynamicAPIServices(services) == DOMAIN services

RegisterCalls == {Pending("Register", c.in) : c \in ValidateCalls}

\* Register on a new registry, and the step types made from the registry then
CallRegister ==
  /\ call.op = "Register"
  /\ call.n = 0
  /\ LET r == Register(NewServiceRegistry, call.in) IN
       call' = [call EXCEPT !.n = 1,
                  !.out = [err |-> r.err,
                           stepTypes |-> RegisterDynamicAPIServices(r.services)]]
  /\ UNCHANGED <<cfg, ticks, built, listeners, webhook, p, lifeVars, chanVars, procVars, histVars, pending>>

CallMergeParams ==
  /\ call.op = "mergeParams"
  /\ call.n = 0
  /\ call' = [call EXCEPT !.n = 1,
                !.out = mergeParams(call.in.serviceDef, call.in.opDef, call.in.userParams)]
  /\ UNCHANGED <<cfg, ticks, built, listeners, webhook, p, lifeVars, chanVars, procVars, histVars, pending>>

CallResolveBody ==
  /\ call.op = "ResolveBody"
  /\ call.n = 0
  /\ call' = [call EXCEPT !.n = 1,
                !.out = ResolveBody(call.in.serviceDef, call.in.opDef, call.in.userParams)]
  /\ UNCHANGED <<cfg, ticks, built, listeners, webhook, p, lifeVars, chanVars, procVars, histVars, pending>>

CallValidateServiceDefinition ==
  /\ call.op = "ValidateServiceDefinition"
  /\ call.n = 0
  /\ call' = [call EXCEPT !.n = 1, !.out = ValidateServiceDefinition(call.in)]
  /\ UNCHANGED <<cfg, ticks, built, listeners, webhook, p, lifeVars, chanVars, procVars, histVars, pending>>

InitService ==
  /\ cfg = <<>> /\ ticks = 0 /\ listeners = 0 /\ webhook = NoWebhook /\ Fresh
  /\ call \in MergeCalls \cup ResolveCalls \cup ValidateCalls \cup RegisterCalls

NextService ==
  CallMergeParams \/ CallResolveBody \/ CallValidateServiceDefinition \/ CallRegister

SpecService == InitService /\ [][NextService]_vars

HasReturned(op) == call.op = op /\ call.n = 1

\* C17: for every parameter name the merged environment holds the user's value
\* if there is one, else the operation's default if it has one, else the
\* service's global default if it has one, and otherwise nothing
C17_MergePrecedence ==
  HasReturned("mergeParams") =>
    LET g == call.in.serviceDef.GlobalParams
        o == call.in.opDef.Params
        u == call.in.userParams
        merged == call.out
    IN /\ DOMAIN merged \subseteq ParamNames
       /\ \A name \in ParamNames :
            IF name \in DOMAIN u
            THEN name \in DOMAIN merged /\ merged[name] = u[name]
            ELSE IF name \in DOMAIN o /\ o[name].Default # GoNil
            THEN name \in DOMAIN merged /\ merged[name] = NewStaticValue(o[name].Default)
            ELSE IF name \in DOMAIN g /\ g[name].Default # GoNil
            THEN name \in DOMAIN merged /\ merged[name] = NewStaticValue(g[name].Default)
            ELSE name \notin DOMAIN merged

\* all three levels at once: x has both defaults and no user value, y has both
\* defaults and a user value
C17_Witness ==
  /\ HasReturned("mergeParams")
  /\ DOMAIN call.in.userParams = {"y"}
  /\ \A name \in ParamNames : /\ name \in DOMAIN call.in.serviceDef.GlobalParams
                              /\ call.in.serviceDef.GlobalParams[name].Default = Str("g")
                              /\ name \in DOMAIN call.in.opDef.Params
                              /\ call.in.opDef.Params[name].Default = Str("o")
  /\ call.out["x"] = NewStaticValue(Str("o"))
  /\ call.out["y"] = call.in.userParams["y"]

\* a map that is neither a conditional, nor an array template, nor a reference
PlainMap(node) ==
  /\ node.g = "map"
  /\ "$if" \notin DOMAIN node.m
  /\ "$for_each" \notin DOMAIN node.m
  /\ ~HasString(node.m, "$param")

\* a reference to an optional parameter of the operation that the environment
\* does not hold
MissingOptional(opDef, params, node) ==
  /\ node.g = "map"
  /\ "$if" \notin DOMAIN node.m
  /\ "$for_each" \notin DOMAIN node.m
  /\ HasString(node.m, "$param")
  /\ node.m["$param"].s \notin DOMAIN params
  /\ node.m["$param"].s \in DOMAIN opDef.Params
  /\ IsOptional(opDef.Params[node.m["$param"].s])

\* the members of a resolved object or array, each as a ValueSpec
IsObject(res) == (res.t = "static" /\ res.Value.g = "map") \/ (res.t = "structured" /\ "Fields" \in DOMAIN res)
IsArray(res) == (res.t = "static" /\ res.Value.g = "arr") \/ (res.t = "structured" /\ "Array" \in DOMAIN res)
MemberKeys(res) == IF res.t = "static" THEN DOMAIN res.Value.m ELSE DOMAIN res.Fields
Member(res, key) == IF res.t = "static" THEN NewStaticValue(res.Value.m[key]) ELSE res.Fields[key]
Items(res) == IF res.t = "static" THEN [i \in 1..Len(res.Value.a) |-> NewStaticValue(res.Value.a[i])]
              ELSE res.Array

\* the resolved value holds no null and no nil member
RECURSIVE NoNull(_)
NoNull(res) ==
  /\ res # Omitted
  /\ res # NewStaticValue(GoNil)
  /\ IsObject(res) => \A key \in MemberKeys(res) : NoNull(Member(res, key))
  /\ IsArray(res) => \A i \in 1..Len(Items(res)) : NoNull(Items(res)[i])

\* in the resolved value of node, at every depth, a key whose value is a missing
\* optional reference is not there
RECURSIVE Dropped(_, _, _, _)
Dropped(opDef, params, node, res) ==
  IF PlainMap(node)
  THEN /\ IsObject(res)
       /\ MemberKeys(res) \subseteq DOMAIN node.m
       /\ \A key \in DOMAIN node.m :
            IF MissingOptional(opDef, params, node.m[key])
            THEN key \notin MemberKeys(res)
            ELSE key \in MemberKeys(res) =>
                   Dropped(opDef, params, node.m[key], Member(res, key))
  ELSE IF node.g = "arr"
  THEN /\ IsArray(res)
       /\ Len(Items(res)) <= Len(node.a)
       /\ (\E i \in 1..Len(node.a) : MissingOptional(opDef, params, node.a[i]))
            => Len(Items(res)) < Len(node.a)
       /\ Len(Items(res)) = Len(node.a) =>
            \A i \in 1..Len(node.a) : Dropped(opDef, params, node.a[i], Items(res)[i])
  ELSE TRUE

RECURSIVE DynamicInput(_, _)
DynamicInput(node, params) ==
  IF node.g = "arr" THEN \E i \in 1..Len(node.a) : DynamicInput(node.a[i], params)
  ELSE IF node.g # "map" THEN FALSE
  ELSE IF "$if" \in DOMAIN node.m
  THEN LET met == evaluateCondition(node.m["$if"].m, params) IN
       IF met.ok THEN "$then" \in DOMAIN node.m /\ DynamicInput(node.m["$then"], params)
       ELSE "$else" \in DOMAIN node.m /\ DynamicInput(node.m["$else"], params)
  ELSE IF "$for_each" \in DOMAIN node.m
  THEN LET array == ResolveEmpty(params[node.m["$for_each"].s]).v.a IN
       \E i \in 1..Len(array) :
         DynamicInput(node.m["$template"], Overlay(params, "$item" :> NewStaticValue(array[i])))
  ELSE IF HasString(node.m, "$param")
  THEN node.m["$param"].s \in DOMAIN params /\ params[node.m["$param"].s].t # "static"
  ELSE \E key \in DOMAIN node.m : DynamicInput(node.m[key], params)

\* a map, an array or an array template resolves to a static value when it has
\* no dynamic input and to a structured body when it has one, and so do the maps
\* and arrays inside it
RECURSIVE Collapsed(_, _, _)
Collapsed(node, res, params) ==
  /\ (PlainMap(node) \/ node.g = "arr" \/ (node.g = "map" /\ "$for_each" \in DOMAIN node.m)) =>
       /\ ~DynamicInput(node, params) => res.t = "static"
       /\ DynamicInput(node, params) => res.t = "structured"
  /\ PlainMap(node) =>
       \A key \in MemberKeys(res) : Collapsed(node.m[key], Member(res, key), params)
  /\ (node.g = "arr" /\ Len(Items(res)) = Len(node.a)) =>
       \A i \in 1..Len(node.a) : Collapsed(node.a[i], Items(res)[i], params)

\* C19: a resolved body none of whose members is dynamic is a static value, maps
\* and arrays alike and at every nesting level, and one with a dynamic member is
\* a structured body, never a static value
C19_StaticCollapse ==
  (HasReturned("ResolveBody") /\ call.out.err = Nil /\ call.out.v # Omitted) =>
    Collapsed(call.in.opDef.Body, call.out.v,
              mergeParams(call.in.serviceDef, call.in.opDef, call.in.userParams))

\* a dynamic x two maps deep, next to a static sibling: structured bodies all the
\* way up, the sibling static
C19_Witness ==
  /\ HasReturned("ResolveBody")
  /\ "x" \in DOMAIN call.in.userParams
  /\ call.in.userParams["x"].t = "dynamic"
  /\ call.in.opDef.Body = GoMap("k1" :> GoMap(("k1" :> Ref("x")) @@ ("k2" :> Str("s"))))
  /\ call.out = [err |-> Nil,
                 v |-> StructuredFields("k1" :> StructuredFields(
                         ("k1" :> call.in.userParams["x"]) @@ ("k2" :> NewStaticValue(Str("s")))))]

\* C20: a service definition that passes validation has no parameter, global or
\* of an operation, that is required and has a default
C20_RequiredWithDefault ==
  (HasReturned("ValidateServiceDefinition") /\ call.out = Nil) =>
    /\ \A name \in DOMAIN call.in.GlobalParams :
         ~(IsRequired(call.in.GlobalParams[name]) /\ call.in.GlobalParams[name].Default # GoNil)
    /\ \A o \in DOMAIN call.in.Operations : \A name \in DOMAIN call.in.Operations[o].Params :
         LET paramDef == call.in.Operations[o].Params[name] IN
         ~(IsRequired(paramDef) /\ paramDef.Default # GoNil)

\* the $if conditions of a body: of the conditionals in it, at every depth, in
\* the members of maps, the items of arrays, the branches of conditionals and
\* the item templates of array templates
RECURSIVE Conditions(_)
Conditions(body) ==
  IF body.g = "map"
  THEN (IF "$if" \in DOMAIN body.m /\ body.m["$if"].g = "map" THEN {body.m["$if"].m} ELSE {})
       \cup UNION {Conditions(body.m[key]) : key \in DOMAIN body.m \ {"$if"}}
  ELSE IF body.g = "arr" THEN UNION {Conditions(body.a[i]) : i \in 1..Len(body.a)}
  ELSE {}

OperatorsOf(cond) == DOMAIN cond \cap ConditionOperators

\* C21: a service definition that passes validation has no $if condition with
\* zero operators or with two or more of $exists, $equals, $not_equals,
\* $not_empty, $is_empty; and a condition with $param, naming a parameter of
\* the operation, and exactly one operator is accepted
C21_OperatorCount ==
  HasReturned("ValidateServiceDefinition") =>
    \A o \in DOMAIN call.in.Operations :
      LET op == call.in.Operations[o] IN
      \A cond \in Conditions(op.Body) :
        /\ call.out = Nil => Cardinality(OperatorsOf(cond)) = 1
        /\ (/\ HasString(cond, "$param")
            /\ cond["$param"].s \in DOMAIN op.Params
            /\ Cardinality(OperatorsOf(cond)) = 1) => validateConditionDef(cond, op.Params) = Nil

\* ------------------------------------------------------- the stage events
\* every stage of the run has taken its input and sent its output, none failed
AllSucceeded ==
  \A s \in DOMAIN got : Len(got[s]) = 1 /\ Len(sent[s]) = 1 /\ failed[s] = <<>>

\* C22: when a batch run in which every stage processed its event successfully
\* has completed, exactly one stage.completed event has been emitted for each
\* stage
C22_StageCompletedOnce ==
  (mode = "batch" /\ runs = 1 /\ launcher[1] = "finished" /\ AllSucceeded) =>
    \A s \in DOMAIN events : events[s].completed = 1

\* --------------------------------- the graph changed by hand around a Start
MaxMutations == 1

\* a pipeline built from a configuration, started once, while another goroutine
\* calls AddStage and After on it
InitMutate == InitWith({CfgPair, CfgJoin}, {0}, {0})

\* the other goroutine makes its calls before the run's execute has begun
Concurrent ==
  /\ built = "ok"
  /\ call.n < MaxMutations
  /\ IF runs = 0 THEN TRUE ELSE launcher[runs] = "execute"

NextMutate ==
  \/ Build
  \/ FirstStart
  \/ \E id \in StageIDs : Concurrent /\ CallAddStage(id, "json")
  \/ \E id \in StageIDs, dep \in StageIDs : Concurrent /\ CallAfter(id, <<dep>>)
  \/ Execute
  \/ Workers
  \/ Launcher

SpecMutate == InitMutate /\ [][NextMutate]_vars

\* C23: the stage map and the dependents index do not change while the pipeline
\* is running, from the Start that validated them on: the graph execute wires
\* its workers on is the graph Validate accepted
C23_GraphFrozenWhileRunning == [][running => p' = p]_vars

\* -------------------------------------------------------- the done channels
\* C24: in every interleaving of Start, Stop and the completion of runs, a done
\* channel is closed by the goroutine of the run it belongs to, after that run's
\* workers have exited; a run that has finished has closed its own done channel,
\* and no close hits a channel that is closed already
C24_DoneClosedOncePerRun ==
  /\ [](~panicked /\ \A r \in Runs : launcher[r] = "finished" => r \in doneClosed)
  /\ [][\A r \in doneClosed' \ doneClosed :
          launcher[r] = "close done" /\ WorkersExited(r)]_vars

\* ------------------------------------------------------------ the fan-out
\* the trigger's side of a run that nobody stops
SlowTicks ==
  \/ \E s \in Live : Quiet /\ CronTick(s)
  \/ \E s \in Live : CronSend(s)

\* one streaming run, never cancelled, of a trigger with two consumers, long
\* enough to fill the channels between the trigger and a consumer that has
\* stopped reading
InitFan == InitWith({CfgCronFan}, {EdgeCap + InputCap + 5}, {0})

NextFan == Build \/ FirstStart \/ Execute \/ Workers \/ SlowTicks

SpecFan == InitFan /\ [][NextFan]_vars

\* C25: a consumer whose edge channel is full, or whose step has stopped
\* reading, holds up only its own edge: once every goroutine that can run has
\* run, every edge channel that has room has been sent every output its
\* producer's step has emitted
C25_SlowConsumerIsolated ==
  (wk # <<>> /\ ~Cancelled /\ Quiet) =>
    \A e \in DOMAIN conn : Room(conn[e], EdgeCap) => enq[e] = sent[e[1]]

\* the outputs of stage s that its forwarder has taken from the output channel
Taken(s) == SubSeq(sent[s], 1, Len(sent[s]) - Len(outputChan[s].buf))

\* all but the last item
Front(seq) == SubSeq(seq, 1, Len(seq) - 1)

\* C26: without cancellation, what has been sent on the edge channel of a
\* consumer is, in order and unchanged, each output that the producer's forwarder
\* has taken from the step, once: all of them, but for the output in hand while
\* its fan-out has not come to this consumer
C26_FanOutOnce ==
  ~Cancelled =>
    \A e \in DOMAIN enq :
      enq[e] = IF fw[e[1]].pc = "fan" /\ e[2] \in fw[e[1]].rest THEN Front(Taken(e[1]))
               ELSE Taken(e[1])

\* the trigger's second output is on the edges of both consumers
C26_Witness ==
  /\ cfg = CfgCronFan
  /\ wk # <<>>
  /\ ~Cancelled
  /\ Len(sent[sA]) = 2
  /\ enq[<<sA, sB>>] = sent[sA]
  /\ enq[<<sA, sC>>] = sent[sA]

\* -------------------------------------------------------------- the fan-in
\* one run, batch or streaming, of a consumer of two producers, with Stop
InitJoin == InitWith({CfgJoin, CfgCronJoin}, {MaxTicks}, {0})

NextJoin == Build \/ FirstStart \/ Stop \/ Stopping \/ Execute \/ Workers \/ SlowTriggers \/ Launcher

SpecJoin == InitJoin /\ [][NextJoin]_vars

\* the stages with dependencies, and the edge of the i-th dependency of s
NonEntry == {s \in DOMAIN ib : Len(Deps(s)) > 0}
Upstream(s, i) == <<Deps(s)[i], s>>

\* the dependencies the round in progress has been through
Visited(s) ==
  IF ib[s].pc = "emit" THEN 1..Len(Deps(s))
  ELSE IF ib[s].pc = "round" THEN 1..(ib[s].i - 1)
  ELSE {}

\* the round in progress holds an output of every edge it has been through that
\* was still open, of no other edge, and it emits only with a contribution
RoundSound(s) ==
  /\ \A j \in Visited(s) :
       Deps(s)[j] \in DOMAIN ib[s].data \/ Drained(conn[Upstream(s, j)])
  /\ DOMAIN ib[s].data \subseteq {Deps(s)[j] : j \in Visited(s)}
  /\ ib[s].pc = "emit" => DOMAIN ib[s].data # {}

\* a step of the builder in its round: from an edge that is not closed and
\* drained it takes the oldest output (there is one: on an empty open edge it
\* waits) and files it under the producer; from a closed edge it takes nothing
ReadStep(s) ==
  LET e == Upstream(s, ib[s].i) IN
  IF Drained(conn[e]) THEN conn' = conn
  ELSE /\ conn[e].buf # <<>>
       /\ conn' = [conn EXCEPT ![e] = Recv(@)]
       /\ e[1] \in DOMAIN ib'[s].data
       /\ ib'[s].data[e[1]] = Head(conn[e].buf).Data

\* the input that arrives on the consumer's input channel is the round's
\* Data, and a new round begins
EmitStep(s) ==
  /\ ib[s].pc = "emit"
  /\ inputChan'[s].buf = Append(inputChan[s].buf,
                                [Data |-> ib[s].data, EventID |-> ib[s].eventID])
  /\ ib'[s] = NewRound

AllUpstreamClosed(s) == \A j \in 1..Len(Deps(s)) : Drained(conn[Upstream(s, j)])

\* the builder's steps as the statement has them, whatever the state of the run
RoundsAlways ==
  \A s \in NonEntry :
    /\ (ib[s].pc = "round" /\ ib'[s] # ib[s]) => ReadStep(s)
    /\ inputChan'[s].buf # inputChan[s].buf /\ ib'[s] # ib[s] => EmitStep(s)
    /\ (inputChan'[s].closed /\ ~inputChan[s].closed) => AllUpstreamClosed(s)

\* the same, for the steps of a run that is not cancelled
RoundsUnlessCancelled ==
  \A s \in NonEntry :
    /\ (~Cancelled /\ ib[s].pc = "round" /\ ib'[s] # ib[s]) => ReadStep(s)
    /\ inputChan'[s].buf # inputChan[s].buf /\ ib'[s] # ib[s] => EmitStep(s)
    /\ (~Cancelled /\ inputChan'[s].closed /\ ~inputChan[s].closed) => AllUpstreamClosed(s)

ObservesClosure(e) ==
  /\ ib[e[2]].pc = "round"
  /\ Upstream(e[2], ib[e[2]].i) = e
  /\ ib'[e[2]] # ib[e[2]]
  /\ conn' = conn
  /\ ~Cancelled \/ ib'[e[2]].pc \in {"round", "emit"}

\* the steps of one run's execute on the edge e
EdgeSteps(e) ==
  /\ (~conn[e].closed /\ conn'[e].closed) =>
         /\ wk[e[1]] = "run" /\ wk'[e[1]] = "exited"
         /\ fw[e[1]].pc = "done"
  /\ (wk[e[1]] = "run" /\ wk'[e[1]] = "exited") => ~conn[e].closed /\ conn'[e].closed
  /\ conn[e].closed => conn'[e].closed /\ enq'[e] = enq[e]
  /\ ObservesClosure(e) => conn[e].closed /\ conn[e].buf = <<>>

\* C28: every edge channel is closed exactly once, by the worker of its
\* producer as it exits and after the producer's forwarder has made its last
\* send; nothing is sent on a closed edge channel; and the consumer's input
\* builder takes an edge for closed only when the edge is closed and every
\* output sent on it has been received
C28_EdgeClosedOnce ==
  /\ [](AllExited => \A e \in DOMAIN conn : conn[e].closed)
  /\ [][launcher' = launcher => \A e \in DOMAIN conn : EdgeSteps(e)]_vars

\* the producer's worker has closed the edge while its output is still in the
\* channel, and the consumer has not been cancelled
C28_Witness ==
  /\ cfg = CfgCronJoin
  /\ wk # <<>>
  /\ ~Cancelled
  /\ wk[sB] = "exited"
  /\ conn[<<sB, sC>>].closed
  /\ Len(conn[<<sB, sC>>].buf) = 1

\* ------------------------------------------------- a dependency named twice
\* the trigger's side of a run that nobody stops, the ticker at any pace
Ticks ==
  \/ \E s \in Live : CronTick(s)
  \/ \E s \in Live : CronSend(s)

\* one streaming run, never cancelled, in which the consumer lists its producer
\* twice: MaxTicks rounds of two outputs each
InitTwice == InitWith({CfgTwice}, {2 * MaxTicks}, {0})

NextTwice == Build \/ FirstStart \/ Execute \/ Workers \/ Ticks

SpecTwice == InitTwice /\ [][NextTwice]_vars

\* the payloads the input builder of e's consumer has received from the edge e
Received(e) ==
  [k \in 1..(Len(enq[e]) - Len(conn[e].buf)) |-> enq[e][k].Data]

\* the payloads of e's producer in the inputs of e's consumer: those its step
\* has received, those on its input channel, and the round in progress
Delivered(e) ==
  LET inputs == SelectSeq(got[e[2]] \o inputChan[e[2]].buf,
                          LAMBDA input : e[1] \in DOMAIN input.Data)
      round == IF e[1] \in DOMAIN ib[e[2]].data THEN <<ib[e[2]].data[e[1]]>> ELSE <<>>
  IN [k \in 1..Len(inputs) |-> inputs[k].Data[e[1]]] \o round

\* C29: without cancellation, every output the input builder has received from
\* an edge channel is in exactly one StepInput of the consumer (or in the round
\* in progress): none is discarded or overwritten, also when the consumer
\* declared the dependency more than once
C29_NoOutputLost == ~Cancelled => \A e \in DOMAIN enq : Delivered(e) = Received(e)

\* ------------------------------------------------------- the entry points
EntryPoints == {s \in DOMAIN ib : Len(Deps(s)) = 0}

\* the inputs that were put on the input channel of stage s in this run
InputsOf(s) == got[s] \o inputChan[s].buf

\* at most one input, with empty Data and an EventID no other entry point has
SyntheticOnly(s) ==
  /\ Len(InputsOf(s)) <= 1
  /\ \A k \in 1..Len(InputsOf(s)) :
       /\ InputsOf(s)[k].Data = <<>>
       /\ InputsOf(s)[k].EventID # NoEventID
       /\ \A t \in EntryPoints \ {s} : \A j \in 1..Len(InputsOf(t)) :
            InputsOf(t)[j].EventID # InputsOf(s)[k].EventID

\* the input stream: closed as soon as the builder is past its send when the
\* step is not continuous, closed only in a cancelled run when it is
StreamClosing(s) ==
  IF IsContinuous(StepOf(s)) THEN inputChan[s].closed => Cancelled
  ELSE ib[s].pc # "entry" => inputChan[s].closed

MaxOutputs == 2

\* the outputs a step of the caller's own (any implementation of models.Step)
\* may have emitted: up to MaxOutputs, each with an EventID or with none
OutputsOf(s) ==
  UNION {{[k \in 1..n |-> [Data |-> CreateResultData(sDefault, k), EventID |-> ids[k]]] :
            ids \in [1..n -> {NoEventID, GenerateEventID(s, 1), GenerateEventID(s, 2)}]} :
         n \in 0..MaxOutputs}

ClosedWith(outs) == [buf |-> outs, closed |-> TRUE]

\* a batch run of two entry points with steps of the caller's own, joined by
\* c, at the moment both producers have emitted their outputs and their
\* workers have exited; the consumer's goroutines have not run yet
InitRound ==
  /\ cfg = <<>> /\ ticks = 0 /\ listeners = 0 /\ webhook = NoWebhook /\ call = NoCall /\ built = "ok"
  /\ p = After(AddStage(AddStage(AddStage(NewPipeline, NewStage(sA, "custom")),
                                  NewStage(sB, "custom")), NewStage(sC, "json")),
               sC, <<sA, sB>>).p
  /\ running = TRUE /\ mode = "batch" /\ pctx = 1 /\ pdone = 1 /\ runs = 1
  /\ cancelled = {} /\ doneClosed = {} /\ startErr = Nil /\ panicked = FALSE
  /\ launcher = [r \in 1..MaxRuns |-> IF r = 1 THEN "wait workers" ELSE "idle"]
  /\ pending = [r \in 1..MaxRuns |-> 0]
  /\ started = [r \in 1..MaxRuns |-> IF r = 1 THEN "batch" ELSE "none"]
  /\ stop = NoStop
  /\ \E a \in OutputsOf(sA), b \in OutputsOf(sB) :
       LET outs == (sA :> a) @@ (sB :> b) @@ (sC :> <<>>) IN
       /\ conn = (<<sA, sC>> :> ClosedWith(a)) @@ (<<sB, sC>> :> ClosedWith(b))
       /\ enq = (<<sA, sC>> :> a) @@ (<<sB, sC>> :> b)
       /\ sent = outs
       /\ events = [s \in {sA, sB, sC} |-> [output |-> Len(outs[s]), error |-> 0, completed |-> 0]]
  /\ inputChan = [s \in {sA, sB, sC} |-> IF s = sC THEN NewChan ELSE ClosedWith(<<>>)]
  /\ outputChan = [s \in {sA, sB, sC} |-> IF s = sC THEN NewChan ELSE ClosedWith(<<>>)]
  /\ errorChan = [s \in {sA, sB, sC} |-> IF s = sC THEN NewChan ELSE ClosedWith(<<>>)]
  /\ ib = [s \in {sA, sB, sC} |-> IF s = sC THEN NewRound ELSE Returned]
  /\ st = [s \in {sA, sB, sC} |->
            IF s = sC THEN [pc |-> "recv", out |-> <<>>, n |-> 0] ELSE StepIdle]
  /\ fw = [s \in {sA, sB, sC} |->
            IF s = sC THEN [pc |-> "recv", out |-> <<>>, rest |-> {}, target |-> <<>>]
            ELSE FwIdle]
  /\ ef = [s \in {sA, sB, sC} |-> IF s = sC THEN "run" ELSE "done"]
  /\ wk = [s \in {sA, sB, sC} |-> IF s = sC THEN "run" ELSE "exited"]
  /\ got = [s \in {sA, sB, sC} |->
             IF s = sC THEN <<>> ELSE <<[Data |-> <<>>, EventID |-> GenerateEventID(s, 0)]>>]
  /\ failed = [s \in {sA, sB, sC} |-> <<>>]

NextRound ==
  \/ \E s \in Live : IBRecv(s)
  \/ \E s \in Live : IBEmit(s)
  \/ \E s \in Live : StepRecv(s)
  \/ \E s \in Live : StepSend(s)
  \/ \E s \in Live : FwRecv(s)
  \/ \E s \in Live : ErrRecv(s)
  \/ \E s \in Live : WorkerExit(s)

SpecRound == InitRound /\ [][NextRound]_vars

\* the output the builder of e's consumer has received last from the edge e
LastReceived(e) == enq[e][Len(enq[e]) - Len(conn[e].buf)]

\* the EventIDs of the outputs received in the round in progress of stage s, in
\* the order of its dependencies
RECURSIVE RoundEventIDs(_, _)
RoundEventIDs(s, j) ==
  IF j = 0 THEN <<>>
  ELSE RoundEventIDs(s, j - 1) \o
       (IF j \in Visited(s) /\ Deps(s)[j] \in DOMAIN ib[s].data
        THEN <<LastReceived(Upstream(s, j)).EventID>> ELSE <<>>)

FirstNonEmpty(ids) ==
  IF \A k \in 1..Len(ids) : ids[k] = NoEventID THEN NoEventID
  ELSE ids[CHOOSE k \in 1..Len(ids) :
             ids[k] # NoEventID /\ \A m \in 1..(k - 1) : ids[m] = NoEventID]

\* C31: the EventID of the input a fan-in round assembles is the first
\* non-empty EventID among the outputs received in that round, in the order of
\* the consumer's dependencies
C31_FirstNonEmptyEventID ==
  \A s \in NonEntry :
    ib[s].pc \in {"round", "emit"} =>
      ib[s].eventID = FirstNonEmpty(RoundEventIDs(s, Len(Deps(s))))

\* a round whose first output has no EventID and whose second has one
C31_Witness ==
  /\ ib[sC].pc = "emit"
  /\ DOMAIN ib[sC].data = {sA, sB}
  /\ LastReceived(<<sA, sC>>).EventID = NoEventID
  /\ LastReceived(<<sB, sC>>).EventID = GenerateEventID(sB, 1)
  /\ ib[sC].eventID = GenerateEventID(sB, 1)

\* ------------------------------------------------------- After that fails
\* C33: an After call that returns an error leaves the stage's dependencyRefs
\* and the pipeline's dependents index as they were before the call
C33_AfterAllOrNothing ==
  [][(call'.n # call.n /\ call'.op = "After" /\ call'.out # Nil) =>
       /\ p'.dependents = p.dependents
       /\ \A id \in DOMAIN p.stages :
            p'.stages[id].dependencyRefs = p.stages[id].dependencyRefs]_vars

\* ------------------------------------------------- Validate on every graph
MaxRefs == 3

RECURSIVE SumOver(_, _)
SumOver(f, S) ==
  IF S = {} THEN 0 ELSE LET x == CHOOSE y \in S : TRUE IN f[x] + SumOver(f, S \ {x})

\* the stage maps over some of the ids, each stage with any list of up to
\* MaxDeps references to stages of StageIDs, registered or not, with at most
\* MaxRefs references in the whole graph
Graphs ==
  UNION {{[id \in D |-> [ID |-> id, Step |-> "json", dependencyRefs |-> deps[id]]] :
            deps \in {d \in [D -> DepLists] : SumOver([id \in D |-> Len(d[id])], D) <= MaxRefs}} :
         D \in SUBSET StageIDs}

\* p.Validate() on the stage map stgs, the two range loops yielding the stages
\* in the given order
CallValidate ==
  /\ call.op = "Validate"
  /\ call.n = 0
  /\ call' = [call EXCEPT !.n = 1, !.out = Validate(call.in.stgs, call.in.order)]
  /\ UNCHANGED <<cfg, ticks, built, listeners, webhook, p, lifeVars, chanVars, procVars, histVars, pending>>

InitValidate ==
  /\ cfg = <<>> /\ ticks = 0 /\ listeners = 0 /\ webhook = NoWebhook /\ Fresh
  /\ call \in UNION {{Pending("Validate", [stgs |-> g, order |-> o]) :
                         o \in Orders(DOMAIN g)} : g \in Graphs}

NextValidate == CallValidate

SpecValidate == InitValidate /\ [][NextValidate]_vars

DependenciesExist(stgs) ==
  \A id \in DOMAIN stgs : \A i \in 1..Len(stgs[id].dependencyRefs) :
    stgs[id].dependencyRefs[i] \in DOMAIN stgs

\* C34: Validate returns nil if and only if every referenced dependency is a
\* registered stage and no stage reaches itself along dependency references (a
\* stage that depends on itself included), whatever the graph and the order
\* in which the stages are visited
C34_ValidateIff ==
  HasReturned("Validate") =>
    (call.out = Nil <=> (DependenciesExist(call.in.stgs) /\ ~Cyclic(call.in.stgs)))

\* Validate has found a cycle that the first stage visited, which has no
\* dependencies, is not part of and does not lead to
C34_Witness ==
  /\ HasReturned("Validate")
  /\ call.out = CircularDependency
  /\ DOMAIN call.in.stgs = StageIDs
  /\ call.in.stgs[call.in.order[1]].dependencyRefs = <<>>

\* ------------------------------------------------------ the pipeline events
\* the goroutine of run r has emitted pipeline.completed
CompletedEmitted(r) == launcher[r] \in {"wait events", "close done", "finished"}

\* the step emits a stage.output or a stage.error event
StageEventStep ==
  /\ events # <<>>
  /\ DOMAIN events' = DOMAIN events
  /\ \E s \in DOMAIN events : \/ events'[s].output > events[s].output
                              \/ events'[s].error > events[s].error

\* pipeline.started and pipeline.completed are emitted once per run, around the
\* run's stage events
EventsBracketed ==
  /\ [](\A r \in 1..runs : /\ started[r] # "none"
                           /\ CompletedEmitted(r) => WorkersExited(r))
  /\ [][/\ \A r \in 1..runs : /\ started'[r] = started[r]
                               /\ CompletedEmitted(r) => launcher'[r] # "emit completed"
        /\ StageEventStep => /\ started[WorkersRun] # "none"
                             /\ launcher[WorkersRun] = "wait workers"]_vars

\* the done channel of a run is closed only once the run's pipeline.completed
\* has been emitted
DoneAfterCompleted == [](\A r \in doneClosed : CompletedEmitted(r))

\* C32: every successful Start emits pipeline.started once, before any
\* stage.output or stage.error event of the run, and the run emits
\* pipeline.completed once, after its last stage event and before its done
\* channel is closed
C32_PipelineEventsBracketRun == EventsBracketed /\ DoneAfterCompleted

\* -------------------------------------------------- the service registry
\* the errors of the validator for a parameter that is required and has a
\* default, a condition with no operator or several, and a reference to a
\* parameter that is not defined
DefinitionErrors ==
  {"parameter is marked as required but has a default value",
   "condition must have at least one operator", "condition can only have one operator",
   "parameter referenced in body but not defined in params",
   "condition references undefined parameter"}

\* C35: a service definition with one of these validation errors cannot be
\* registered: Register returns an error and no step type is made from it
C35_InvalidDefinitionRejected ==
  (HasReturned("Register") /\ ValidateServiceDefinition(call.in) \in DefinitionErrors) =>
    /\ call.out.err # Nil
    /\ call.in.Name \notin call.out.stepTypes

\* ------------------------------------------- conditionals and array templates
\* {$if: {$param: x, op: arg}, $then: "t", $else: "e"}, with the branches given
Cond(op, arg, branches) ==
  GoMap(("$if" :> GoMap(("$param" :> Str("x")) @@ (op :> arg)))
        @@ [b \in branches |-> IF b = "$then" THEN Str("t") ELSE Str("e")])

Literals == {Str("u"), Str("v")}

CondNodes ==
  {Cond(op, lit, br) : op \in {"$equals", "$not_equals"}, lit \in Literals,
                       br \in SUBSET {"$then", "$else"}}
  \cup {Cond("$exists", Bool(b), br) : b \in BOOLEAN, br \in SUBSET {"$then", "$else"}}

\* the item if it is "u", nothing otherwise
ItemIfU == GoMap(("$if" :> GoMap(("$param" :> Str("$item")) @@ ("$equals" :> Str("u"))))
                 @@ ("$then" :> Ref("$item")))

Templates == {Ref("$item"), GoMap("v" :> Ref("$item")), Str("s"), ItemIfU}

\* a node alone, as one of two members of a map, and as one of two items of an array
Placed(node) ==
  {node, GoMap(("k1" :> node) @@ ("k2" :> Str("s"))), GoArr(<<Str("s"), node>>)}

\* the values of x: none, "u", "v", the empty string
ValuesOfX == Maps({"x"}, {NewStaticValue(Str("u")), NewStaticValue(Str("v")),
                          NewStaticValue(Str(""))})

\* the values of y: none, an array of up to MaxItems + 1 strings, a string, an
\* expression that cannot be evaluated
ValuesOfY ==
  Maps({"y"}, {NewStaticValue(GoArr(a)) : a \in UNION {[1..n -> Literals] : n \in 0..(MaxItems + 1)}}
              \cup {NewStaticValue(Str("u")), DynamicValue("e", GoErr)})

BodyCalls ==
  {Pending("ResolveBody", [serviceDef |-> Service("svc", <<>>, <<>>),
                           opDef |-> Operation("POST", ("x" :> Opt) @@ ("y" :> Opt), b),
                           userParams |-> x @@ y]) :
     x \in ValuesOfX, y \in ValuesOfY,
     b \in UNION {Placed(node) : node \in CondNodes \cup {TmplOf(t) : t \in Templates}}}

InitBody ==
  /\ cfg = <<>> /\ ticks = 0 /\ listeners = 0 /\ webhook = NoWebhook /\ Fresh
  /\ call \in BodyCalls

NextBody == CallResolveBody

SpecBody == InitBody /\ [][NextBody]_vars

\* the body of the call is the conditional on x with the operator op, the
\* literal lit and both branches, and x has a value
Compares(op, lit) ==
  /\ HasReturned("ResolveBody")
  /\ call.in.opDef.Body = Cond(op, lit, {"$then", "$else"})
  /\ "x" \in DOMAIN call.in.userParams

Chose(branch) == call.out = [err |-> Nil, v |-> NewStaticValue(Str(branch))]

EqualsSelects ==
  \A lit \in Literals :
    Compares("$equals", lit) =>
      IF call.in.userParams["x"].Value = lit THEN Chose("t") ELSE Chose("e")

NotEqualsSelects ==
  \A lit \in Literals :
    Compares("$not_equals", lit) =>
      IF call.in.userParams["x"].Value # lit THEN Chose("t") ELSE Chose("e")

\* C36: a conditional with $equals resolves to its $then branch if the value
\* of the parameter equals the literal and to its $else branch otherwise; a
\* conditional with $not_equals resolves to its $then branch if the value
\* differs from the literal and to its $else branch otherwise
C36_EqualsAndNotEquals == EqualsSelects /\ NotEqualsSelects

\* the branch the condition of the node selects, for the parameters of the
\* call, is not there
BranchAbsent(node) ==
  LET met == evaluateCondition(node.m["$if"].m, call.in.userParams).ok IN
  \/ met /\ "$then" \notin DOMAIN node.m
  \/ ~met /\ "$else" \notin DOMAIN node.m

\* C37: a conditional whose chosen branch is absent resolves to nothing: alone
\* it leaves no body, as a member of a map its key is not in the resolved map,
\* as an item of an array it is not in the resolved array
C37_AbsentBranchOmitted ==
  HasReturned("ResolveBody") =>
    \A node \in CondNodes :
      BranchAbsent(node) =>
        /\ call.in.opDef.Body = node => call.out = [err |-> Nil, v |-> Omitted]
        /\ call.in.opDef.Body = GoMap(("k1" :> node) @@ ("k2" :> Str("s"))) =>
             call.out = [err |-> Nil, v |-> NewStaticValue(GoMap("k2" :> Str("s")))]
        /\ call.in.opDef.Body = GoArr(<<Str("s"), node>>) =>
             call.out = [err |-> Nil, v |-> NewStaticValue(GoArr(<<Str("s")>>))]

\* the condition is false and there is no $else: the key k1 is dropped
C37_Witness ==
  /\ HasReturned("ResolveBody")
  /\ call.in.opDef.Body =
       GoMap(("k1" :> Cond("$equals", Str("u"), {"$then"})) @@ ("k2" :> Str("s")))
  /\ call.in.userParams = "x" :> NewStaticValue(Str("v"))
  /\ call.out.v = NewStaticValue(GoMap("k2" :> Str("s")))

\* what a template of Templates makes of one element; <<>> when it makes nothing
ItemResult(t, item) ==
  IF t = Ref("$item") THEN <<item>>
  ELSE IF t = GoMap("v" :> Ref("$item")) THEN <<GoMap("v" :> item)>>
  ELSE IF t = Str("s") THEN <<Str("s")>>
  ELSE IF item = Str("u") THEN <<item>> ELSE <<>>

\* the results for the elements of the array, in their order
RECURSIVE Expanded(_, _)
Expanded(t, array) ==
  IF array = <<>> THEN <<>> ELSE ItemResult(t, Head(array)) \o Expanded(t, Tail(array))

\* y has a value that is an ordered sequence
HasSequence(params) ==
  /\ "y" \in DOMAIN params
  /\ params["y"].t = "static"
  /\ params["y"].Value.g = "arr"

\* C38: {$for_each: y, $template: t} resolves to the array of what t resolves
\* to for each element of y, $item standing for the element, in the order of
\* the elements and without the elements for which t resolves to nothing; it
\* is an error when y has no value that is an ordered sequence
C38_ArrayTemplate ==
  HasReturned("ResolveBody") =>
    \A t \in Templates :
      call.in.opDef.Body = TmplOf(t) =>
        IF HasSequence(call.in.userParams)
        THEN call.out = [err |-> Nil,
                         v |-> NewStaticValue(GoArr(Expanded(t, call.in.userParams["y"].Value.a)))]
        ELSE call.out.err # Nil

\* two elements, of which the template keeps the second only
C38_Witness ==
  /\ HasReturned("ResolveBody")
  /\ call.in.opDef.Body = TmplOf(ItemIfU)
  /\ HasSequence(call.in.userParams)
  /\ call.in.userParams["y"].Value.a = <<Str("v"), Str("u")>>
  /\ call.out.v = NewStaticValue(GoArr(<<Str("u")>>))

\* ------------------------------------------- the parameters a body refers to
\* the names a body refers to with $param, in a condition or with $for_each, at
\* every depth; $item is the element's name inside an item template
RECURSIVE Referenced(_)
Referenced(body) ==
  IF body.g = "arr" THEN UNION {Referenced(body.a[i]) : i \in 1..Len(body.a)}
  ELSE IF body.g # "map" THEN {}
  ELSE IF "$if" \in DOMAIN body.m
  THEN (IF body.m["$if"].g = "map" /\ HasString(body.m["$if"].m, "$param")
        THEN {body.m["$if"].m["$param"].s} ELSE {})
       \cup (IF "$then" \in DOMAIN body.m THEN Referenced(body.m["$then"]) ELSE {})
       \cup (IF "$else" \in DOMAIN body.m THEN Referenced(body.m["$else"]) ELSE {})
  ELSE IF "$for_each" \in DOMAIN body.m
  THEN (IF HasString(body.m, "$for_each") THEN {body.m["$for_each"].s} ELSE {})
       \cup (IF "$template" \in DOMAIN body.m
             THEN Referenced(body.m["$template"]) \ {"$item"} ELSE {})
  ELSE IF HasString(body.m, "$param") THEN {body.m["$param"].s}
  ELSE UNION {Referenced(body.m[key]) : key \in DOMAIN body.m}

\* C39: in a service definition that passes validation, every parameter an
\* operation's body refers to, at any depth, is a parameter of the operation
C39_UndefinedParamRejected ==
  (HasReturned("ValidateServiceDefinition") /\ call.out = Nil) =>
    \A o \in DOMAIN call.in.Operations :
      Referenced(call.in.Operations[o].Body) \subseteq DOMAIN call.in.Operations[o].Params

\* ------------------------------------------------- the one-shot webhook step
MaxInputs == 2
MaxRequests == 3

\* the goroutine of Run (continuous = false) takes the next input: a new
\* received channel, the handler registered if this is the first input
\* (handlerOnce; the handler's closure holds the channel of that iteration),
\* activate, and on to the select
WebhookNext ==
  /\ webhook.pc = "range"
  /\ webhook.inputs # <<>>
  /\ webhook' = [webhook EXCEPT
                   !.input = Head(webhook.inputs),
                   !.inputs = Tail(@),
                   !.received = Append(@, <<>>),
                   !.captured = IF @ = 0 THEN Len(webhook.received) + 1 ELSE @,
                   !.active = TRUE,
                   !.pc = "select"]
  /\ UNCHANGED <<cfg, ticks, built, listeners, call, p, lifeVars, chanVars, procVars, histVars, pending>>

\* the input channel is closed and empty: the goroutine returns
WebhookReturn ==
  /\ webhook.pc = "range"
  /\ webhook.inputs = <<>>
  /\ webhook' = [webhook EXCEPT !.pc = "done"]
  /\ UNCHANGED <<cfg, ticks, built, listeners, call, p, lifeVars, chanVars, procVars, histVars, pending>>

\* case data := <-received, on the channel of this iteration
WebhookReceive ==
  /\ webhook.pc = "select"
  /\ webhook.received[Len(webhook.received)] # <<>>
  /\ webhook' = [webhook EXCEPT
                   !.data = Head(webhook.received[Len(webhook.received)]),
                   !.received[Len(webhook.received)] = Tail(@),
                   !.pc = "deactivate"]
  /\ UNCHANGED <<cfg, ticks, built, listeners, call, p, lifeVars, chanVars, procVars, histVars, pending>>

\* deactivate, and the output with the input's EventID
WebhookOutput ==
  /\ webhook.pc = "deactivate"
  /\ webhook' = [webhook EXCEPT
                   !.active = FALSE,
                   !.outputs = Append(@, [Data |-> CreateResultData(sDefault, webhook.data),
                                          EventID |-> webhook.input]),
                   !.pc = "range"]
  /\ UNCHANGED <<cfg, ticks, built, listeners, call, p, lifeVars, chanVars, procVars, histVars, pending>>

\* case <-ctx.Done(): deactivate, "webhook cancelled", return
WebhookCancelled ==
  /\ webhook.pc = "select"
  /\ webhook.cancelled
  /\ webhook' = [webhook EXCEPT !.active = FALSE, !.errors = @ + 1, !.pc = "done"]
  /\ UNCHANGED <<cfg, ticks, built, listeners, call, p, lifeVars, chanVars, procVars, histVars, pending>>

\* the run's context is cancelled
WebhookCancel ==
  /\ webhook.pc \notin {"none", "done"}
  /\ ~webhook.cancelled
  /\ webhook' = [webhook EXCEPT !.cancelled = TRUE]
  /\ UNCHANGED <<cfg, ticks, built, listeners, call, p, lifeVars, chanVars, procVars, histVars, pending>>

\* an HTTP request on the step's path: no handler before the first input; then
\* the handler's isActive and method checks
Request(method) ==
  /\ webhook.pc # "none"
  /\ Len(webhook.requests) < MaxRequests
  /\ webhook' = [webhook EXCEPT !.requests = Append(@,
                   IF webhook.captured = 0 THEN "404"
                   ELSE IF ~webhook.active THEN "503"
                   ELSE IF method # "POST" THEN "405"
                   ELSE "in flight")]
  /\ UNCHANGED <<cfg, ticks, built, listeners, call, p, lifeVars, chanVars, procVars, histVars, pending>>

\* the handler's select for request i: the event goes to the channel the
\* closure holds if it has room (capacity 1), else "Handler busy"
HandlerSend(i) ==
  /\ webhook.requests[i] = "in flight"
  /\ IF Len(webhook.received[webhook.captured]) < 1
     THEN webhook' = [webhook EXCEPT !.received[webhook.captured] = Append(@, i),
                                     !.requests[i] = "200"]
     ELSE webhook' = [webhook EXCEPT !.requests[i] = "503"]
  /\ UNCHANGED <<cfg, ticks, built, listeners, call, p, lifeVars, chanVars, procVars, histVars, pending>>

\* Run on an input channel that delivers up to MaxInputs inputs and is closed
InitWebhook ==
  /\ cfg = <<>> /\ ticks = 0 /\ listeners = 0 /\ call = NoCall /\ Fresh
  /\ webhook \in {NewWebhook("range", [j \in 1..n |-> GenerateEventID(sA, j)]) :
                    n \in 0..MaxInputs}

NextWebhook ==
  \/ WebhookNext
  \/ WebhookReturn
  \/ WebhookReceive
  \/ WebhookOutput
  \/ WebhookCancelled
  \/ WebhookCancel
  \/ \E method \in {"POST", "GET"} : Request(method)
  \/ \E i \in 1..Len(webhook.requests) : HandlerSend(i)

SpecWebhook == InitWebhook /\ [][NextWebhook]_vars

\* the requests that were answered "Event received and queued"
Accepted == {i \in 1..Len(webhook.requests) : webhook.requests[i] = "200"}

\* the step waits for an event: its channel is empty and no request is on its
\* way
Waiting ==
  /\ webhook.pc = "select"
  /\ webhook.received[Len(webhook.received)] = <<>>
  /\ \A i \in 1..Len(webhook.requests) : webhook.requests[i] # "in flight"

\* every output carries the EventID of the input of its turn, and an accepted
\* request's event
OutputsFollowInputs ==
  \A k \in 1..Len(webhook.outputs) :
    /\ webhook.outputs[k].EventID = GenerateEventID(sA, k)
    /\ webhook.outputs[k].Data[sDefault] \in Accepted

\* between an output and the next input the handler is not active
InactiveBetweenInputs == webhook.pc \in {"range", "done"} => ~webhook.active

\* every accepted request has produced its output whenever the step waits
AcceptedIsOutput ==
  Waiting => \A i \in Accepted :
               \E k \in 1..Len(webhook.outputs) : webhook.outputs[k].Data[sDefault] = i

\* C40: for every input the one-shot webhook step activates its handler, the
\* request the handler accepts gives one output with that input's EventID, and
\* the handler is inactive until the next input
C40_OneShotWebhookPerInput ==
  OutputsFollowInputs /\ InactiveBetweenInputs /\ AcceptedIsOutput

====
